---- MODULE Spec2Model ----
(***************************************************************************)
(* pyai_caching: a Redis-backed cache around PydanticAI agent runs, with   *)
(* a rate-limit backoff, a connection-error retry policy and usage-based   *)
(* cost accounting.                                                        *)
(*                                                                         *)
(* Conventions of the model                                                *)
(*   - text is a sequence of short strings (characters or tokens), so     *)
(*     that joining and prefix tests are computed and not assumed;         *)
(*   - durations are in milliseconds (1.0 s = 1000);                       *)
(*   - a fraction such as the jitter is in percent (0.1 = 10);             *)
(*   - a rate is in 1e-5 currency units per million tokens (3.0 = 300000),  *)
(*     a token count is in thousands of tokens (1,000,000 tokens = 1000)   *)
(*     and a cost is the exact value of the quotient by 1e6 that           *)
(*     calculate_cost returns, in 1e-8 currency units (3.0 = 300000000);   *)
(*   - Python's None is the record None, an exception is a record with a   *)
(*     field type.                                                         *)
(***************************************************************************)
EXTENDS Integers, Sequences, FiniteSets, TLC

(***************************************************************************)
(* Bounds of the model.                                                    *)
(***************************************************************************)
\* rate-limit signals the environment raises within one call
MaxRateLimitHits == 2
\* concurrent caller tasks
NumCalls == 2

Calls == 1..NumCalls

None == [type |-> "None"]

(***************************************************************************)
(* agent.py: module constants.                                             *)
(***************************************************************************)
DEFAULT_TTL == 1296000

DEFAULT_RETRY_CONFIG ==
    [max_retries |-> 3, initial_delay |-> 1000, max_delay |-> 10000, jitter |-> 10]

DefaultMaxWait == 10000

DefaultInitialWait == 1000

(***************************************************************************)
(* Text helpers.                                                           *)
(***************************************************************************)
\* "sep".join(parts)
RECURSIVE Join(_, _)
Join(parts, sep) ==
    IF Len(parts) = 0 THEN <<>>
    ELSE IF Len(parts) = 1 THEN parts[1]
    ELSE parts[1] \o sep \o Join(Tail(parts), sep)

\* s.startswith(p)
StartsWith(s, p) ==
    /\ Len(p) <= Len(s)
    /\ SubSeq(s, 1, Len(p)) = p

Bar == <<"|">>

\* the order of characters that sorting uses
Alphabet == <<"!", "(", ")", ",", ":", "A", "B", "[", "]", "a", "b", "c", "h", "i", "|">>

Rank(ch) ==
    IF \E i \in 1..Len(Alphabet) : Alphabet[i] = ch
    THEN CHOOSE i \in 1..Len(Alphabet) : Alphabet[i] = ch
    ELSE Len(Alphabet) + 1

\* a < b for two texts, as Python compares str
RECURSIVE TextLess(_, _)
TextLess(a, b) ==
    IF Len(b) = 0 THEN FALSE
    ELSE IF Len(a) = 0 THEN TRUE
    ELSE IF Rank(a[1]) # Rank(b[1]) THEN Rank(a[1]) < Rank(b[1])
    ELSE TextLess(Tail(a), Tail(b))

\* sorted(items) for a sequence of <<key, value>> pairs with distinct keys
RECURSIVE InsertSorted(_, _)
InsertSorted(sorted, item) ==
    IF Len(sorted) = 0 THEN <<item>>
    ELSE IF TextLess(item[1], sorted[1][1]) THEN <<item>> \o sorted
    ELSE <<sorted[1]>> \o InsertSorted(Tail(sorted), item)

RECURSIVE Sorted(_)
Sorted(items) ==
    IF Len(items) = 0 THEN <<>>
    ELSE InsertSorted(Sorted(SubSeq(items, 1, Len(items) - 1)), items[Len(items)])

\* repr() of a value of a schema dict: a text [type |-> "str", value], or a
\* nested dict [type |-> "dict", items], printed in its insertion order
Repr(v) ==
    IF v.type = "dict"
    THEN <<"{">> \o Join([i \in 1..Len(v.items) |->
                             v.items[i][1] \o <<":">> \o v.items[i][2]],
                         <<",">>)
                 \o <<"}">>
    ELSE v.value

\* str() of a list of (key, value) pairs
StrOfItems(items) ==
    <<"[">> \o Join([i \in 1..Len(items) |->
                        <<"(">> \o items[i][1] \o <<":">> \o Repr(items[i][2]) \o <<")">>],
                    <<",">>)
            \o <<"]">>

(***************************************************************************)
(* agent.py: _get_model_name.                                              *)
(* agent.model is None, a str [type |-> "str", value], or a model object   *)
(* [type |-> "Model", model_name, class].                                  *)
(***************************************************************************)
Truthy(v) ==
    CASE v.type = "None" -> FALSE
      [] v.type = "str" -> Len(v.value) > 0
      [] v.type = "bytes" -> Len(v.value) > 0
      [] v.type = "list" -> Len(v.value) > 0
      [] v.type = "dict" -> Len(v.value) > 0
      [] v.type = "config" -> DOMAIN v.value # {}
      [] OTHER -> TRUE

_get_model_name(agent) ==
    IF Truthy(agent.model)
    THEN IF agent.model.type = "str" THEN agent.model.value
         ELSE IF Truthy(agent.model.model_name) THEN agent.model.model_name.value
         ELSE agent.model.class
    ELSE <<"unknown">>

(***************************************************************************)
(* agent.py: create_cache_key.                                             *)
(* kwargs is a record; its field message_history, when present, is None or *)
(* [type |-> "list", value |-> the messages' string forms].                *)
(* agent.output_type is None, [type |-> "schema", items] or                *)
(* [type |-> "broken"], whose model_json_schema() raises.                  *)
(***************************************************************************)
\* variant: a history that is supplied but empty still contributes a component
HistoryPart_EmptyKept(kwargs) ==
    IF "message_history" \in DOMAIN kwargs /\ kwargs.message_history.type = "list"
    THEN <<Join(kwargs.message_history.value, Bar)>>
    ELSE <<>>

HistoryPart(kwargs) ==
    IF "message_history" \in DOMAIN kwargs /\ Truthy(kwargs.message_history)
    THEN <<Join(kwargs.message_history.value, Bar)>>
    ELSE <<>>

\* variant: a schema that cannot be read still contributes a component
SchemaPart_BrokenKept(agent) ==
    IF Truthy(agent.output_type)
    THEN IF agent.output_type.type = "schema"
         THEN <<StrOfItems(Sorted(agent.output_type.items))>>
         ELSE <<<<"!">>>>
    ELSE <<>>

SchemaPart(agent) ==
    IF Truthy(agent.output_type)
    THEN IF agent.output_type.type = "schema"
         THEN <<StrOfItems(Sorted(agent.output_type.items))>>
         ELSE <<>>
    ELSE <<>>

create_cache_key(agent, prompt, kwargs) ==
    Join(<<agent.str, prompt>> \o HistoryPart(kwargs) \o SchemaPart(agent), Bar)

(***************************************************************************)
(* costs.py: ModelCosts, DEFAULT_COSTS.                                    *)
(* A dict is a sequence of [key, value] records in insertion order.        *)
(***************************************************************************)
ModelCosts(i, o, ci, ch) ==
    [type |-> "ModelCosts",
     cost_per_million_input_tokens |-> i,
     cost_per_million_output_tokens |-> o,
     cost_per_million_caching_input_tokens |-> ci,
     cost_per_million_caching_hit_tokens |-> ch]

DEFAULT_COSTS ==
    << [key |-> <<"claude-3-", "7-sonnet", "-latest">>,
        value |-> ModelCosts(300000, 1500000, 375000, 30000)],
       [key |-> <<"claude-3-", "5-haiku", "-latest">>,
        value |-> ModelCosts(80000, 400000, 100000, 8000)],
       [key |-> <<"gpt-4o", "-mini">>,
        value |-> ModelCosts(15000, 60000, 0, 7500)],
       [key |-> <<"o3-mini", "-2025-01-31">>,
        value |-> ModelCosts(110000, 440000, 0, 55000)],
       [key |-> <<"gemini-", "1.5-flash">>,
        value |-> ModelCosts(7500, 30000, 1875, 0)],
       [key |-> <<"gemini-", "2.0-flash", "-lite">>,
        value |-> ModelCosts(7500, 30000, 0, 0)],
       [key |-> <<"gemini-", "2.0-flash">>,
        value |-> ModelCosts(10000, 40000, 2500, 0)] >>

HasKey(dict, k) == \E i \in 1..Len(dict) : dict[i].key = k

Lookup(dict, k) == dict[CHOOSE i \in 1..Len(dict) : dict[i].key = k].value

\* d[k] = v
SetItem(dict, k, v) ==
    IF HasKey(dict, k)
    THEN [i \in 1..Len(dict) |-> IF dict[i].key = k THEN [key |-> k, value |-> v] ELSE dict[i]]
    ELSE Append(dict, [key |-> k, value |-> v])

\* d.update(other)
RECURSIVE Update(_, _)
Update(dict, other) ==
    IF Len(other) = 0 THEN dict
    ELSE Update(SetItem(dict, other[1].key, other[1].value), Tail(other))

\* variant: the default rates win over the custom ones
get_model_costs_DefaultsWin(model_name, custom_costs) ==
    LET costs_map == IF Truthy(custom_costs)
                     THEN Update(custom_costs.value, DEFAULT_COSTS)
                     ELSE DEFAULT_COSTS
        starts == {i \in 1..Len(costs_map) : StartsWith(costs_map[i].key, model_name)}
    IN  IF HasKey(costs_map, model_name) THEN Lookup(costs_map, model_name)
        ELSE IF starts # {}
             THEN costs_map[CHOOSE i \in starts : \A j \in starts : i <= j].value
        ELSE [type |-> "ValueError", origin |-> "costs"]

(***************************************************************************)
(* costs.py: get_model_costs. Returns the rates or the ValueError raised.  *)
(***************************************************************************)
get_model_costs(model_name, custom_costs) ==
    LET costs_map == IF Truthy(custom_costs)
                     THEN Update(DEFAULT_COSTS, custom_costs.value)
                     ELSE DEFAULT_COSTS
        starts == {i \in 1..Len(costs_map) : StartsWith(costs_map[i].key, model_name)}
    IN  IF HasKey(costs_map, model_name) THEN Lookup(costs_map, model_name)
        ELSE IF starts # {}
             THEN costs_map[CHOOSE i \in starts : \A j \in starts : i <= j].value
        ELSE [type |-> "ValueError", origin |-> "costs"]

(***************************************************************************)
(* costs.py lines 71-73 with the module global as an argument: costs_map   *)
(* is a copy of the global, and update changes the copy.                   *)
(***************************************************************************)
costs_map_of(table, custom_costs) ==
    IF Truthy(custom_costs) THEN Update(table, custom_costs.value) ELSE table

\* variant: costs_map is the global itself, which update changes
DefaultCostsAfter_NoCopy(table, custom_costs) == costs_map_of(table, custom_costs)

\* the module global after get_model_costs has run
DefaultCostsAfter(table, custom_costs) == table

\* get_model_costs, reading the global as the process holds it
get_model_costs_in(table, model_name, custom_costs) ==
    LET costs_map == costs_map_of(table, custom_costs)
        starts == {i \in 1..Len(costs_map) : StartsWith(costs_map[i].key, model_name)}
    IN  IF HasKey(costs_map, model_name) THEN Lookup(costs_map, model_name)
        ELSE IF starts # {}
             THEN costs_map[CHOOSE i \in starts : \A j \in starts : i <= j].value
        ELSE [type |-> "ValueError", origin |-> "costs"]

(***************************************************************************)
(* costs.py: get_token_counts. A usage object is a record; an attribute    *)
(* that is missing or None is left out of it, and so is a details map that *)
(* is missing, None or empty.                                              *)
(***************************************************************************)
Get(rec, name, default) == IF name \in DOMAIN rec THEN rec[name] ELSE default

Max(a, b) == IF a >= b THEN a ELSE b

Min(a, b) == IF a <= b THEN a ELSE b

\* variant: the ordinary counts are not clamped at zero
get_token_counts_NoClamp(usage) ==
    LET total_input == Get(usage, "request_tokens", 0)
        total_output == Get(usage, "response_tokens", 0)
        details == Get(usage, "details", <<>>)
        cached_input == Get(details, "cached_input_tokens", 0)
        cached_output == Get(details, "cached_output_tokens", 0)
    IN  [input_tokens |-> total_input - cached_input,
         output_tokens |-> total_output - cached_output,
         cached_input_tokens |-> cached_input,
         cached_output_tokens |-> cached_output]

\* variant: the cached counts are not taken off the totals
get_token_counts_NoSubtract(usage) ==
    LET total_input == Get(usage, "request_tokens", 0)
        total_output == Get(usage, "response_tokens", 0)
        details == Get(usage, "details", <<>>)
        cached_input == Get(details, "cached_input_tokens", 0)
        cached_output == Get(details, "cached_output_tokens", 0)
    IN  [input_tokens |-> Max(0, total_input),
         output_tokens |-> Max(0, total_output),
         cached_input_tokens |-> cached_input,
         cached_output_tokens |-> cached_output]

get_token_counts(usage) ==
    LET total_input == Get(usage, "request_tokens", 0)
        total_output == Get(usage, "response_tokens", 0)
        details == Get(usage, "details", <<>>)
        cached_input == Get(details, "cached_input_tokens", 0)
        cached_output == Get(details, "cached_output_tokens", 0)
    IN  [input_tokens |-> Max(0, total_input - cached_input),
         output_tokens |-> Max(0, total_output - cached_output),
         cached_input_tokens |-> cached_input,
         cached_output_tokens |-> cached_output]

\* variant: the two cache rates are taken for one another
calculate_cost_CacheRatesSwapped(model_name, result, custom_costs) ==
    LET costs == get_model_costs(model_name, custom_costs)
        tokens == get_token_counts(result.usage)
    IN  IF costs.type = "ValueError" THEN costs
        ELSE [type |-> "float",
              value |-> tokens.input_tokens * costs.cost_per_million_input_tokens
                        + tokens.output_tokens * costs.cost_per_million_output_tokens
                        + tokens.cached_input_tokens * costs.cost_per_million_caching_hit_tokens
                        + tokens.cached_output_tokens * costs.cost_per_million_caching_input_tokens]

\* variant: a model without rates is priced at zero
calculate_cost_ZeroDefault(model_name, result, custom_costs) ==
    LET costs == get_model_costs(model_name, custom_costs)
        tokens == get_token_counts(result.usage)
    IN  IF costs.type = "ValueError" THEN [type |-> "float", value |-> 0]
        ELSE [type |-> "float",
              value |-> tokens.input_tokens * costs.cost_per_million_input_tokens
                        + tokens.output_tokens * costs.cost_per_million_output_tokens
                        + tokens.cached_input_tokens * costs.cost_per_million_caching_input_tokens
                        + tokens.cached_output_tokens * costs.cost_per_million_caching_hit_tokens]

(***************************************************************************)
(* costs.py: calculate_cost. Returns [type |-> "float", value] or the      *)
(* ValueError of get_model_costs.                                          *)
(***************************************************************************)
calculate_cost(model_name, result, custom_costs) ==
    LET costs == get_model_costs(model_name, custom_costs)
        tokens == get_token_counts(result.usage)
    IN  IF costs.type = "ValueError" THEN costs
        ELSE [type |-> "float",
              value |-> tokens.input_tokens * costs.cost_per_million_input_tokens
                        + tokens.output_tokens * costs.cost_per_million_output_tokens
                        + tokens.cached_input_tokens * costs.cost_per_million_caching_input_tokens
                        + tokens.cached_output_tokens * costs.cost_per_million_caching_hit_tokens]

(***************************************************************************)
(* config.py: get_redis_url, get_redis_client.                             *)
(* A URL is None or [type |-> "str", value |-> <<scheme, rest>>].          *)
(* Each returns [type |-> "str" / "Redis", ...] or the exception raised.   *)
(***************************************************************************)
Str(v) == [type |-> "str", value |-> v]

get_redis_url(environ) ==
    IF ~Truthy(environ) THEN [type |-> "ConfigurationError", origin |-> "unset"]
    ELSE IF environ.value[1] \notin {"redis", "rediss", "redis+sentinel"}
         THEN [type |-> "ConfigurationError", origin |-> "scheme"]
    ELSE environ

\* redis.from_url of the redis library: it knows redis://, rediss:// and unix://
from_url(url) ==
    IF url.value[1] \in {"redis", "rediss", "unix"}
    THEN [type |-> "Redis", url |-> url]
    ELSE [type |-> "ValueError", origin |-> "redis.from_url"]

get_redis_client(url, environ) ==
    LET redis_url == IF Truthy(url) THEN url ELSE get_redis_url(environ)
    IN  IF redis_url.type = "ConfigurationError" THEN redis_url
        ELSE from_url(redis_url)

(***************************************************************************)
(* pickle, as far as agent.py uses it: dumps of a CachedResult gives bytes *)
(* that loads turns back into an equal object; loads of any other bytes    *)
(* raises.                                                                 *)
(***************************************************************************)
Bytes(v, obj) == [type |-> "bytes", value |-> v, obj |-> obj]

pickle_dumps(obj) == Bytes(<<"pickle">>, obj)

pickle_loads(data) ==
    IF data.value = <<"pickle">> THEN data.obj
    ELSE [type |-> "UnpicklingError", origin |-> "pickle"]

\* agent.py: class CachedResult; usage is what usage() returns
CachedResult(output, usage, model, cost) ==
    [type |-> "CachedResult", output |-> output, usage |-> usage,
     model |-> model, cost |-> cost]

\* the result object of agent.run, as far as agent.py reads it
AgentRunResult(output, usage) ==
    [type |-> "AgentRunResult", output |-> output, usage |-> usage]

(***************************************************************************)
(* Exceptions.                                                             *)
(***************************************************************************)
ConnectionClass == {"TimeoutError", "ConnectionRefusedError", "ConnectionResetError"}

\* an exception instance raised by a collaborator in the at-th attempt
Exc(type, origin, at) == [type |-> type, origin |-> origin, at |-> at]

\* exceptions.ConnectionError as agent.py line 213 raises it: no "from e", so
\* __cause__ stays None and the handled exception is the implicit __context__
ConnectionError(e, max_retries) ==
    [type |-> "ConnectionError", origin |-> "agent.py", at |-> e.at,
     retries |-> max_retries, message_of |-> e, cause |-> None, context |-> e]

IsException(v) ==
    v.type \in {"UsageLimitExceeded", "OtherError", "ValueError", "KeyError",
                "RuntimeError", "ConnectionError", "ConfigurationError",
                "UnpicklingError", "RedisError"} \cup ConnectionClass

\* a collaborator returns normally
Ok == [type |-> "ok"]

RECURSIVE Pow2(_)
Pow2(n) == IF n <= 0 THEN 1 ELSE 2 * Pow2(n - 1)

(***************************************************************************)
(* The inputs of the model.                                                *)
(***************************************************************************)
KnownModel == <<"claude-3-", "5-haiku", "-latest">>

AgentA == [str |-> <<"A">>, model |-> Str(KnownModel), output_type |-> None]

AgentB == [str |-> <<"B">>, model |-> Str(<<"mystery">>), output_type |-> None]

NoKwargs == <<>>

Hi == <<"h", "i">>

\* what agent.run may return
Results ==
    { AgentRunResult("o1", [request_tokens |-> 10, response_tokens |-> 5]),
      AgentRunResult("o2", [request_tokens |-> 20, response_tokens |-> 5,
                            details |-> [cached_input_tokens |-> 8]]) }

Config(v) == [type |-> "config", value |-> v]

Dict(v) == [type |-> "dict", value |-> v]

RedisUrl == Str(<<"redis", "//h/0">>)

\* a call of cached_agent_run with the defaults of its keyword arguments, and
\* the value of LLM_CACHE_REDIS_URL in the environment of the call (environ)
DefaultArgs(agent, prompt) ==
    [agent |-> agent, prompt |-> prompt, kwargs |-> NoKwargs, task_name |-> "task",
     ttl |-> DEFAULT_TTL, max_wait |-> DefaultMaxWait, initial_wait |-> DefaultInitialWait,
     redis_url |-> None, environ |-> RedisUrl, custom_costs |-> None,
     skip_cache |-> FALSE, retry_config |-> None]

OneRetry == Config([max_retries |-> 1, initial_delay |-> 1000, max_delay |-> 4000, jitter |-> 10])

\* the calls the cache specification explores
CacheArgs ==
    LET A == [DefaultArgs(AgentA, Hi) EXCEPT !.retry_config = OneRetry]
        B == [DefaultArgs(AgentB, Hi) EXCEPT !.retry_config = OneRetry]
    IN  { A, B,
          [A EXCEPT !.ttl = 60],
          [A EXCEPT !.skip_cache = TRUE],
          [A EXCEPT !.skip_cache = TRUE, !.environ = None],
          [A EXCEPT !.retry_config = Config([max_retries |-> 0])],
          [A EXCEPT !.retry_config =
              Config([max_retries |-> 2, initial_delay |-> 1000, max_delay |-> 4000,
                      jitter |-> 0])],
          [A EXCEPT !.redis_url = RedisUrl, !.environ = None],
          [A EXCEPT !.environ = None],
          [A EXCEPT !.environ = Str(<<"http", "//h">>)],
          [A EXCEPT !.redis_url = Str(<<"http", "//h">>)],
          [B EXCEPT !.custom_costs =
              Dict(<< [key |-> <<"mystery">>, value |-> ModelCosts(100000, 200000, 50000, 0)] >>)],
          [B EXCEPT !.custom_costs =
              Dict(<< [key |-> <<"mystery", "-v2">>,
                       value |-> ModelCosts(100000, 200000, 50000, 0)] >>)] }

Keys == {create_cache_key(a.agent, a.prompt, a.kwargs) : a \in CacheArgs}

(***************************************************************************)
(* State.                                                                  *)
(*   calls   the caller tasks: the locals of cached_agent_run, the place   *)
(*           the task is at (pc) and what the call has done so far         *)
(*   store   the Redis database: key -> None or [payload, ex]              *)
(*   origin  key -> the agent result whose snapshot a call wrote last      *)
(*           under the key, [type |-> "expired", ex] once that entry has   *)
(*           expired, None when another client wrote the entry             *)
(* Of a call, n_agent, n_ok, rl_hits, n_reports, n_writes count the agent  *)
(* invocations, those that returned, the rate-limit signals handled, the   *)
(* expense reports and the store writes; report and write are the last of  *)
(* them, rl_waits and conn_waits the sleeps, steps what happened since the *)
(* last agent invocation, lookup how the lookup ended, hit_report how the  *)
(* zero-cost report ended, faults the exceptions raised inside the try     *)
(* block by agent.run, calculate_cost, the expense recorder and the store  *)
(* write, store0 the store when the call began and origin0 the origin of   *)
(* the entry under the key of the call at that time, raised the exception  *)
(* raised last inside the try block.                                       *)
(*   fn      a function of the package applied on its own, outside a call  *)
(*           of cached_agent_run: its arguments and, once applied, what it *)
(*           returned or raised                                            *)
(*   default_costs  the module global DEFAULT_COSTS of costs.py, as the    *)
(*           process holds it                                              *)
(***************************************************************************)
VARIABLES calls, store, origin, fn, default_costs

vars == <<calls, store, origin, fn, default_costs>>

\* no function of the package is being applied on its own
NoCall == [op |-> "none"]

IdleCall ==
    [pc |-> "idle", args |-> None, model_name |-> <<>>,
     redis_client |-> None, cache_key |-> <<>>, cached_result |-> None, result |-> None, cost |-> 0,
     wait_time |-> 0, retry_config |-> None, max_retries |-> 0, retry_count |-> 0,
     last_error |-> None, e |-> None, actual_delay |-> 0, ret |-> None,
     lookup |-> "none", n_agent |-> 0, n_ok |-> 0, rl_hits |-> 0,
     n_reports |-> 0, report |-> None, n_writes |-> 0, write |-> None,
     rl_waits |-> <<>>, conn_waits |-> <<>>,
     steps |-> <<>>, hit_report |-> "none",
     faults |-> [agent |-> 0, price |-> 0, recorder |-> 0, store |-> 0],
     store0 |-> <<>>, origin0 |-> None, raised |-> None]

Init ==
    /\ calls = [c \in Calls |-> IdleCall]
    /\ store = [k \in Keys |-> None]
    /\ origin = [k \in Keys |-> None]
    /\ fn = NoCall
    /\ default_costs = DEFAULT_COSTS

Return(C, v) ==
    [C EXCEPT !.pc = "done", !.ret = [type |-> "return", value |-> v],
              !.steps = Append(@, "return")]

Raise(C, exc) ==
    [C EXCEPT !.pc = "done", !.ret = [type |-> "raise", exc |-> exc],
              !.steps = Append(@, "raise")]

(***************************************************************************)
(* agent.py lines 177-183: the locals of the retry loop.                   *)
(***************************************************************************)
EnterLoop(C) ==
    LET retry_config == IF Truthy(C.args.retry_config)
                        THEN C.args.retry_config.value
                        ELSE DEFAULT_RETRY_CONFIG
    IN  IF "max_retries" \notin DOMAIN retry_config
        THEN Raise(C, Exc("KeyError", "max_retries", 0))
        ELSE [C EXCEPT !.wait_time = C.args.initial_wait, !.last_error = None,
                       !.retry_config = retry_config,
                       !.max_retries = retry_config.max_retries,
                       !.retry_count = 0, !.pc = "run"]

\* variant: an exception of redis_client.get leaves the call
Lookup_ReadRaises(C, read_ok) ==
    LET redis_client == get_redis_client(C.args.redis_url, C.args.environ)
        cache_key == create_cache_key(C.args.agent, C.args.prompt, C.args.kwargs)
        cached_result == IF read_ok /\ store[cache_key] # None
                         THEN store[cache_key].payload ELSE None
        K == [C EXCEPT !.redis_client = redis_client, !.cache_key = cache_key,
                       !.cached_result = cached_result]
    IN  IF IsException(redis_client) THEN Raise(C, redis_client)
        ELSE IF ~read_ok
             THEN Raise([K EXCEPT !.lookup = "error"], Exc("OtherError", "store", 0))
        ELSE IF ~Truthy(cached_result) THEN EnterLoop([K EXCEPT !.lookup = "miss"])
        ELSE IF IsException(pickle_loads(cached_result))
             THEN EnterLoop([K EXCEPT !.lookup = "corrupt"])
        ELSE [K EXCEPT !.lookup = "hit", !.result = pickle_loads(cached_result),
                       !.pc = "report_zero"]

\* variant: an exception of pickle.loads leaves the call
Lookup_DecodeRaises(C, read_ok) ==
    LET redis_client == get_redis_client(C.args.redis_url, C.args.environ)
        cache_key == create_cache_key(C.args.agent, C.args.prompt, C.args.kwargs)
        cached_result == IF read_ok /\ store[cache_key] # None
                         THEN store[cache_key].payload ELSE None
        K == [C EXCEPT !.redis_client = redis_client, !.cache_key = cache_key,
                       !.cached_result = cached_result]
    IN  IF IsException(redis_client) THEN Raise(C, redis_client)
        ELSE IF ~read_ok THEN EnterLoop([K EXCEPT !.lookup = "error"])
        ELSE IF ~Truthy(cached_result) THEN EnterLoop([K EXCEPT !.lookup = "miss"])
        ELSE IF IsException(pickle_loads(cached_result))
             THEN Raise([K EXCEPT !.lookup = "corrupt"], pickle_loads(cached_result))
        ELSE [K EXCEPT !.lookup = "hit", !.result = pickle_loads(cached_result),
                       !.pc = "report_zero"]

(***************************************************************************)
(* agent.py lines 147-176: the client, the key, the lookup and the decode, *)
(* up to the first await. read_ok says whether redis_client.get returns.   *)
(***************************************************************************)
Lookup_(C, read_ok) ==
    LET redis_client == get_redis_client(C.args.redis_url, C.args.environ)
        cache_key == create_cache_key(C.args.agent, C.args.prompt, C.args.kwargs)
        cached_result == IF read_ok
                         THEN IF store[cache_key] = None THEN None
                              ELSE store[cache_key].payload
                         ELSE None
        K == [C EXCEPT !.redis_client = redis_client, !.cache_key = cache_key,
                       !.cached_result = cached_result]
    IN  IF IsException(redis_client) THEN Raise(C, redis_client)
        ELSE IF ~read_ok THEN EnterLoop([K EXCEPT !.lookup = "error"])
        ELSE IF ~Truthy(cached_result) THEN EnterLoop([K EXCEPT !.lookup = "miss"])
        ELSE IF IsException(pickle_loads(cached_result))
             THEN EnterLoop([K EXCEPT !.lookup = "corrupt"])
        ELSE [K EXCEPT !.lookup = "hit", !.result = pickle_loads(cached_result),
                       !.pc = "report_zero"]

\* variant: the lookup is made whatever skip_cache says
Begin_AlwaysLooksUp(c, args, read_ok) ==
    /\ calls[c].pc = "idle"
    /\ LET C == [IdleCall EXCEPT !.args = args,
                                 !.model_name = _get_model_name(args.agent),
                                 !.store0 = store,
                                 !.origin0 = origin[create_cache_key(args.agent, args.prompt,
                                                                     args.kwargs)]]
       IN  calls' = [calls EXCEPT ![c] = Lookup_(C, read_ok)]
    /\ UNCHANGED <<store, origin, fn, default_costs>>

Begin(c, args, read_ok) ==
    /\ calls[c].pc = "idle"
    /\ LET C == [IdleCall EXCEPT !.args = args,
                                 !.model_name = _get_model_name(args.agent),
                                 !.store0 = store,
                                 !.origin0 = origin[create_cache_key(args.agent, args.prompt,
                                                                     args.kwargs)]]
       IN  calls' = [calls EXCEPT ![c] = IF args.skip_cache THEN EnterLoop(C)
                                         ELSE Lookup_(C, read_ok)]
    /\ UNCHANGED <<store, origin, fn, default_costs>>

(***************************************************************************)
(* agent.py lines 203-226: the except clauses of the retry loop, for an    *)
(* exception exc raised inside the try block. jitter is the percentage     *)
(* random.uniform draws. The sleeps are awaited: actions of their own.     *)
(***************************************************************************)
\* variant: the delay doubles without a ceiling
HandleConnectionError_NoCeiling(C, exc, jitter) ==
    LET retry_count == C.retry_count + 1
        K == [C EXCEPT !.retry_count = retry_count]
    IN  IF retry_count >= C.max_retries
        THEN Raise(K, ConnectionError(exc, C.max_retries))
        ELSE IF "max_delay" \notin DOMAIN C.retry_config
             THEN Raise(K, Exc("KeyError", "max_delay", C.n_agent))
        ELSE IF "jitter" \notin DOMAIN C.retry_config
             THEN Raise(K, Exc("KeyError", "jitter", C.n_agent))
        ELSE LET delay == C.wait_time * Pow2(retry_count)
             IN  [K EXCEPT !.actual_delay = (delay * (100 + jitter)) \div 100,
                           !.e = exc, !.pc = "connection_sleep"]

\* variant: the last connection error is slept on like the others
HandleConnectionError_NoRaise(C, exc, jitter) ==
    LET retry_count == C.retry_count + 1
        K == [C EXCEPT !.retry_count = retry_count]
    IN  IF "max_delay" \notin DOMAIN C.retry_config
        THEN Raise(K, Exc("KeyError", "max_delay", C.n_agent))
        ELSE IF "jitter" \notin DOMAIN C.retry_config
             THEN Raise(K, Exc("KeyError", "jitter", C.n_agent))
        ELSE LET delay == Min(C.wait_time * Pow2(retry_count), C.retry_config.max_delay)
             IN  [K EXCEPT !.actual_delay = (delay * (100 + jitter)) \div 100,
                           !.e = exc, !.pc = "connection_sleep"]

HandleConnectionError(C, exc, jitter) ==
    LET retry_count == C.retry_count + 1
        K == [C EXCEPT !.retry_count = retry_count]
    IN  IF retry_count >= C.max_retries
        THEN Raise(K, ConnectionError(exc, C.max_retries))
        ELSE IF "max_delay" \notin DOMAIN C.retry_config
             THEN Raise(K, Exc("KeyError", "max_delay", C.n_agent))
        ELSE IF "jitter" \notin DOMAIN C.retry_config
             THEN Raise(K, Exc("KeyError", "jitter", C.n_agent))
        ELSE LET delay == Min(C.wait_time * Pow2(retry_count), C.retry_config.max_delay)
             IN  [K EXCEPT !.actual_delay = (delay * (100 + jitter)) \div 100,
                           !.e = exc, !.pc = "connection_sleep"]

\* variant: every exception of the try block is retried as a connection error
Handle_RetryAll(C, exc, jitter) ==
    LET K == [C EXCEPT !.raised = exc]
    IN  IF exc.type = "UsageLimitExceeded"
        THEN [K EXCEPT !.last_error = exc, !.rl_hits = @ + 1, !.pc = "rate_limit_sleep"]
        ELSE HandleConnectionError(K, exc, jitter)

Handle(C, exc, jitter) ==
    LET K == [C EXCEPT !.raised = exc]
    IN  IF exc.type = "UsageLimitExceeded"
        THEN [K EXCEPT !.last_error = exc, !.rl_hits = @ + 1, !.pc = "rate_limit_sleep"]
        ELSE IF exc.type \in ConnectionClass
             THEN HandleConnectionError(K, exc, jitter)
        ELSE Raise(K, exc)

\* the values random.uniform(-jitter, jitter) is drawn from
Jitters(C) ==
    IF "jitter" \in DOMAIN C.retry_config
    THEN {-C.retry_config.jitter, C.retry_config.jitter}
    ELSE {0}

\* the exceptions a collaborator may raise inside the try block
Raisable(C, origin_) ==
    {Exc(t, origin_, C.n_agent) : t \in {"TimeoutError", "ConnectionResetError", "OtherError"}}
    \cup (IF C.rl_hits < MaxRateLimitHits
          THEN {Exc("UsageLimitExceeded", origin_, C.n_agent)}
          ELSE {})

\* variant: a hit reports the cost stored with the entry
ZeroCostReport_Stored(C, raised) ==
    [type |-> "report", model |-> C.model_name, task_name |-> C.args.task_name,
     cost |-> C.result.cost, raised |-> raised]

\* what the expense recorder is called with: line 170 on a hit, line 190 after a run
ZeroCostReport(C, raised) ==
    [type |-> "report", model |-> C.model_name, task_name |-> C.args.task_name,
     cost |-> 0, raised |-> raised]

CostReport(C, raised) ==
    [type |-> "report", model |-> C.model_name, task_name |-> C.args.task_name,
     cost |-> C.cost, raised |-> raised]

\* variant: the snapshot loses the output
Cacheable_NoOutput(C) == CachedResult("", C.result.usage, C.model_name, C.cost)

\* lines 194-199
Cacheable(C) == CachedResult(C.result.output, C.result.usage, C.model_name, C.cost)

\* variant: the entry is stored with the default expiry
Entry_DefaultTtl(C) == [payload |-> pickle_dumps(Cacheable(C)), ex |-> DEFAULT_TTL]

\* what line 200 stores under the key
Entry(C) == [payload |-> pickle_dumps(Cacheable(C)), ex |-> C.args.ttl]

(***************************************************************************)
(* agent.py lines 168-173: the zero-cost report of a hit; outcome is Ok  *)
(* or the exception the expense recorder raises.                           *)
(***************************************************************************)
ReportZeroCost(c, outcome) ==
    /\ calls[c].pc = "report_zero"
    /\ LET C == [calls[c] EXCEPT
                    !.n_reports = @ + 1,
                    !.report = ZeroCostReport(calls[c], outcome # Ok),
                    !.hit_report = IF outcome = Ok THEN "ok" ELSE "raised",
                    !.steps = Append(@, "report_zero")]
       IN  calls' = [calls EXCEPT ![c] = IF outcome = Ok THEN Return(C, C.result)
                                         ELSE EnterLoop(C)]
    /\ UNCHANGED <<store, origin, fn, default_costs>>

(***************************************************************************)
(* agent.py lines 185-189: one pass of the loop up to the expense report:  *)
(* agent.run returns outcome (a result) or raises it; the cost is priced.  *)
(***************************************************************************)
AgentRun(c, outcome, jitter) ==
    /\ calls[c].pc = "run"
    /\ calls[c].retry_count < calls[c].max_retries
    /\ LET C == [calls[c] EXCEPT !.n_agent = @ + 1, !.steps = <<"agent">>]
           cost == calculate_cost(C.model_name, outcome, C.args.custom_costs)
       IN  calls' = [calls EXCEPT ![c] =
              IF IsException(outcome)
              THEN Handle([C EXCEPT !.faults.agent = @ + 1], outcome, jitter)
              ELSE IF IsException(cost)
                   THEN Handle([C EXCEPT !.result = outcome, !.n_ok = @ + 1,
                                         !.faults.price = @ + 1,
                                         !.steps = Append(@, "price")],
                               cost, jitter)
              ELSE [C EXCEPT !.result = outcome, !.n_ok = @ + 1, !.cost = cost.value,
                             !.steps = Append(@, "price"), !.pc = "report"]]
    /\ default_costs' = IF IsException(outcome) THEN default_costs
                        ELSE DefaultCostsAfter(default_costs, calls[c].args.custom_costs)
    /\ UNCHANGED <<store, origin, fn>>

(***************************************************************************)
(* agent.py lines 228-232: the loop condition fails.                       *)
(***************************************************************************)
RetriesExhausted(c) ==
    /\ calls[c].pc = "run"
    /\ ~(calls[c].retry_count < calls[c].max_retries)
    /\ calls' = [calls EXCEPT ![c] =
                    IF Truthy(calls[c].last_error)
                    THEN Raise(calls[c], calls[c].last_error)
                    ELSE Raise(calls[c], Exc("RuntimeError", "agent.py", calls[c].n_agent))]
    /\ UNCHANGED <<store, origin, fn, default_costs>>

\* variant: SET with NX, which keeps an entry that is already there
redis_set_IfAbsent(st, key, entry) ==
    IF st[key] = None THEN [st EXCEPT ![key] = entry] ELSE st

\* redis_client.set(key, payload, ex=ttl): the store after it
redis_set(st, key, entry) == [st EXCEPT ![key] = entry]

(***************************************************************************)
(* agent.py lines 190-201: the expense report, the store write and the     *)
(* return. reported and written are Ok or the exception raised by the    *)
(* expense recorder and by pickle.dumps / redis_client.set.                *)
(***************************************************************************)
Report(c, reported, written, jitter) ==
    /\ calls[c].pc = "report"
    /\ LET C == [calls[c] EXCEPT
                    !.n_reports = @ + 1,
                    !.report = CostReport(calls[c], reported # Ok),
                    !.steps = Append(@, "report")]
           entry == Entry(C)
           W == [C EXCEPT !.steps = Append(@, "write")]
       IN  IF reported # Ok
           THEN /\ calls' = [calls EXCEPT ![c] =
                                Handle([C EXCEPT !.faults.recorder = @ + 1], reported, jitter)]
                /\ UNCHANGED <<store, origin, fn, default_costs>>
           ELSE IF C.args.skip_cache
           THEN /\ calls' = [calls EXCEPT ![c] = Return(C, C.result)]
                /\ UNCHANGED <<store, origin, fn, default_costs>>
           ELSE IF written # Ok
           THEN /\ calls' = [calls EXCEPT ![c] =
                                Handle([W EXCEPT !.faults.store = @ + 1], written, jitter)]
                /\ UNCHANGED <<store, origin, fn, default_costs>>
           ELSE /\ calls' = [calls EXCEPT ![c] =
                                Return([W EXCEPT !.n_writes = @ + 1,
                                                 !.write = [type |-> "write",
                                                            key |-> C.cache_key,
                                                            entry |-> entry,
                                                            over |-> store[C.cache_key]]],
                                       C.result)]
                /\ store' = redis_set(store, C.cache_key, entry)
                /\ origin' = [origin EXCEPT ![C.cache_key] = C.result]
                /\ UNCHANGED <<fn, default_costs>>

(***************************************************************************)
(* agent.py lines 205-207 and 221-222: the awaited sleeps end.             *)
(***************************************************************************)
RateLimitSleep(c) ==
    /\ calls[c].pc = "rate_limit_sleep"
    /\ calls' = [calls EXCEPT ![c] =
                    [@ EXCEPT !.rl_waits = Append(@, calls[c].wait_time),
                              !.wait_time = 2 * @,
                              !.steps = Append(@, "sleep"),
                              !.pc = "run"]]
    /\ UNCHANGED <<store, origin, fn, default_costs>>

ConnectionSleep(c) ==
    /\ calls[c].pc = "connection_sleep"
    /\ calls' = [calls EXCEPT ![c] =
                    [@ EXCEPT !.conn_waits = Append(@, calls[c].actual_delay),
                              !.last_error = calls[c].e,
                              !.e = None,
                              !.steps = Append(@, "sleep"),
                              !.pc = "run"]]
    /\ UNCHANGED <<store, origin, fn, default_costs>>

\* the caller has the value or the exception of the call
Finish(c) ==
    /\ calls[c].pc = "done"
    /\ calls' = [calls EXCEPT ![c] = IdleCall]
    /\ UNCHANGED <<store, origin, fn, default_costs>>

(***************************************************************************)
(* The store outside the calls: Redis drops an entry once its expiry has   *)
(* passed, and other clients of the database write to it.                  *)
(***************************************************************************)
Expire(k) ==
    /\ IF store[k] = None THEN FALSE ELSE store[k].ex > 0
    /\ store' = [store EXCEPT ![k] = None]
    /\ origin' = [origin EXCEPT ![k] = [type |-> "expired", ex |-> store[k].ex]]
    /\ UNCHANGED <<calls, fn, default_costs>>

Foreign == {Bytes(<<"corrupted data">>, None), Bytes(<<>>, None)}

ExternalSet(k, payload) ==
    /\ IF store[k] = None THEN TRUE ELSE store[k].payload # payload
    /\ store' = [store EXCEPT ![k] = [payload |-> payload, ex |-> -1]]
    /\ origin' = [origin EXCEPT ![k] = None]
    /\ UNCHANGED <<calls, fn, default_costs>>

Quiet == \A c \in Calls : calls[c].pc = "idle"

(***************************************************************************)
(* Spec: one caller task that makes call after call, against a store that  *)
(* changes between the calls.                                              *)
(***************************************************************************)
Caller == CHOOSE c \in Calls : \A d \in Calls : c <= d

Next ==
    \/ \E a \in CacheArgs, read_ok \in BOOLEAN : Begin(Caller, a, read_ok)
    \/ \E o \in {Ok} \cup Raisable(calls[Caller], "recorder") : ReportZeroCost(Caller, o)
    \/ \E o \in Results \cup Raisable(calls[Caller], "agent"),
          j \in Jitters(calls[Caller]) : AgentRun(Caller, o, j)
    \/ RetriesExhausted(Caller)
    \/ \E r \in {Ok} \cup Raisable(calls[Caller], "recorder"),
          w \in {Ok} \cup Raisable(calls[Caller], "store"),
          j \in Jitters(calls[Caller]) : Report(Caller, r, w, j)
    \/ RateLimitSleep(Caller)
    \/ ConnectionSleep(Caller)
    \/ Finish(Caller)
    \/ \E k \in Keys : Quiet /\ Expire(k)
    \/ \E k \in Keys, p \in Foreign : Quiet /\ ExternalSet(k, p)

Spec == Init /\ [][Next]_vars

(***************************************************************************)
(* SpecRetry: the calls that exercise the two retry policies. The agent    *)
(* fails in every way; the expense recorder and the store work.            *)
(***************************************************************************)
RetryArgs ==
    LET A == DefaultArgs(AgentA, Hi)
    IN  { A,
          [A EXCEPT !.skip_cache = TRUE],
          [A EXCEPT !.max_wait = 1000],
          [A EXCEPT !.max_wait = 2000, !.initial_wait = 500],
          [A EXCEPT !.retry_config = Config([max_retries |-> 0])],
          [A EXCEPT !.retry_config = Config([max_retries |-> -1])],
          [A EXCEPT !.retry_config = Config([max_retries |-> 2])],
          [A EXCEPT !.retry_config =
              Config([max_retries |-> 2, initial_delay |-> 500, max_delay |-> 1500,
                      jitter |-> 50])],
          [A EXCEPT !.retry_config =
              Config([max_retries |-> 2, initial_delay |-> 1000, max_delay |-> 1500,
                      jitter |-> 50])] }

NextRetry ==
    \/ \E a \in RetryArgs : Begin(Caller, a, TRUE)
    \/ ReportZeroCost(Caller, Ok)
    \/ \E o \in Results \cup Raisable(calls[Caller], "agent"),
          j \in Jitters(calls[Caller]) : AgentRun(Caller, o, j)
    \/ RetriesExhausted(Caller)
    \/ Report(Caller, Ok, Ok, 0)
    \/ RateLimitSleep(Caller)
    \/ ConnectionSleep(Caller)
    \/ Finish(Caller)

SpecRetry == Init /\ [][NextRetry]_vars

(***************************************************************************)
(* SpecConc: the caller tasks of one event loop, all with the same agent   *)
(* and prompt. A task runs from one await to the next without interruption *)
(* (Begin up to the await of agent.run or of the expense recorder,         *)
(* AgentRun up to the await of the expense recorder, Report to the         *)
(* return); at an await any other task may run. Every collaborator works.  *)
(***************************************************************************)
ConcArgs ==
    LET A == DefaultArgs(AgentA, Hi)
    IN  {A, [A EXCEPT !.ttl = 60]}

NextConc ==
    \E c \in Calls :
        \/ \E a \in ConcArgs : Begin(c, a, TRUE)
        \/ ReportZeroCost(c, Ok)
        \/ \E o \in Results : AgentRun(c, o, 0)
        \/ Report(c, Ok, Ok, 0)
        \/ Finish(c)

SpecConc == Init /\ [][NextConc]_vars

\* how far a single count is raised when linearity is examined
MaxRaise == 2

(***************************************************************************)
(* SpecCost: the functions of costs.py applied on their own. The initial   *)
(* state draws the function and its arguments; the action applies it.      *)
(***************************************************************************)
Sonnet == <<"claude-3-", "7-sonnet", "-latest">>

Flash == <<"gemini-", "2.0-flash">>

\* model identifiers: keys of the default table, the beginning of several
\* keys, a key followed by a suffix, a name no key resembles, the empty name
ModelNames ==
    { Sonnet, KnownModel, Flash, <<"gemini-">>,
      <<"gemini-", "2.0-flash", "-lite", "-001">>, <<"mystery">>, <<>> }

\* custom_costs: None, {}, a rate for a new model, an override of a default
\* key, and keys after the default ones that begin like other identifiers
CustomCosts ==
    { None,
      Dict(<<>>),
      Dict(<< [key |-> <<"mystery">>, value |-> ModelCosts(100000, 200000, 50000, 0)] >>),
      Dict(<< [key |-> KnownModel, value |-> ModelCosts(300000, 200000, 50000, 1000)] >>),
      Dict(<< [key |-> <<"mystery", "-v2">>, value |-> ModelCosts(1000, 2000, 500, 0)],
              [key |-> <<"gemini-", "1.5-flash">>,
               value |-> ModelCosts(100000, 200000, 50000, 1000)] >>) }

\* an attribute or a details entry with the value v; left out when v < 0
Attr(name, v) == IF v < 0 THEN <<>> ELSE name :> v

\* usage objects: each attribute present or not, details present or not
Usages ==
    { Attr("request_tokens", rt) @@ Attr("response_tokens", st) :
          rt \in {-1, 0, 1, 2, 1000}, st \in {-1, 0, 2, 5} }
    \cup
    { Attr("request_tokens", rt) @@ Attr("response_tokens", st)
        @@ ("details" :> (Attr("cached_input_tokens", ci) @@ Attr("cached_output_tokens", co))) :
          rt \in {-1, 0, 1, 2, 1000}, st \in {-1, 0, 2, 5},
          ci \in {-1, 0, 1, 3}, co \in {-1, 0, 3} }

CostCalls ==
    [op : {"get_model_costs", "get_token_counts", "calculate_cost"},
     model_name : ModelNames, custom_costs : CustomCosts, usage : Usages,
     applied : {FALSE}, ret : {None}]

InitCost ==
    /\ calls = [c \in Calls |-> IdleCall]
    /\ store = [k \in Keys |-> None]
    /\ origin = [k \in Keys |-> None]
    /\ fn \in CostCalls
    /\ default_costs = DEFAULT_COSTS

GetModelCosts ==
    /\ fn.op = "get_model_costs" /\ ~fn.applied
    /\ fn' = [fn EXCEPT !.applied = TRUE,
                        !.ret = get_model_costs(fn.model_name, fn.custom_costs)]
    /\ UNCHANGED <<calls, store, origin, default_costs>>

GetTokenCounts ==
    /\ fn.op = "get_token_counts" /\ ~fn.applied
    /\ fn' = [fn EXCEPT !.applied = TRUE, !.ret = get_token_counts(fn.usage)]
    /\ UNCHANGED <<calls, store, origin, default_costs>>

CalculateCost ==
    /\ fn.op = "calculate_cost" /\ ~fn.applied
    /\ fn' = [fn EXCEPT !.applied = TRUE,
                        !.ret = calculate_cost(fn.model_name,
                                               AgentRunResult("o1", fn.usage),
                                               fn.custom_costs)]
    /\ UNCHANGED <<calls, store, origin, default_costs>>

NextCost == GetModelCosts \/ GetTokenCounts \/ CalculateCost

SpecCost == InitCost /\ [][NextCost]_vars

(***************************************************************************)
(* Specification of create_cache_key as a pure function: fn names two      *)
(* successive calls and collects the keys they return.                     *)
(* An agent object carries id, its identity in memory, which no code of    *)
(* agent.py reads; str(agent) is the agent's field str.                    *)
(***************************************************************************)
ObjectIds == {"first", "second"}

Built(agent, id, output_type) ==
    [id |-> id, str |-> agent.str, model |-> agent.model, output_type |-> output_type]

Schema(items) == [type |-> "schema", items |-> items]

Nested(items) == [type |-> "dict", items |-> items]

\* class OutputModel with field1 and field2, its schema dict in either order,
\* class OutputModel with field1 and field3, a schema whose "properties"
\* dict lists the two fields in either order, and a type without a schema
OutputTypes ==
    {None,
     Schema(<< <<<<"a">>, [type |-> "str", value |-> <<"i">>]>>,
               <<<<"b">>, [type |-> "str", value |-> <<"i">>]>> >>),
     Schema(<< <<<<"b">>, [type |-> "str", value |-> <<"i">>]>>,
               <<<<"a">>, [type |-> "str", value |-> <<"i">>]>> >>),
     Schema(<< <<<<"a">>, [type |-> "str", value |-> <<"i">>]>>,
               <<<<"c">>, [type |-> "str", value |-> <<"h">>]>> >>),
     Schema(<< <<<<"c">>, Nested(<< <<<<"a">>, <<"i">>>>, <<<<"b">>, <<"h">>>> >>)>> >>),
     Schema(<< <<<<"c">>, Nested(<< <<<<"b">>, <<"h">>>>, <<<<"a">>, <<"i">>>> >>)>> >>),
     [type |-> "broken"]}

KeyAgents == {Built(AgentA, id, t) : id \in ObjectIds, t \in OutputTypes}

Prompts == {Hi, <<"h">>, <<"h", "|", "a">>}

List(v) == [type |-> "list", value |-> v]

\* **kwargs: without message_history (another option of agent.run instead),
\* with None, with an empty list, and with lists of messages named by their
\* str()
KeyKwargs ==
    {[deps |-> None],
     [deps |-> Str(<<"a">>)],
     [message_history |-> None],
     [message_history |-> List(<<>>)],
     [message_history |-> List(<< <<"a">> >>)],
     [message_history |-> List(<< <<"a">>, <<"b">> >>)],
     [message_history |-> List(<< <<"b">>, <<"a">> >>)],
     [message_history |-> List(<< <<"a", "|", "b">> >>)]}

KeyArgs == [agent : KeyAgents, prompt : Prompts, kwargs : KeyKwargs]

KeyCalls ==
    [op : {"create_cache_key"}, first : KeyArgs, second : KeyArgs,
     applied : {FALSE}, ret : {<<>>}]

InitKey ==
    /\ calls = [c \in Calls |-> IdleCall]
    /\ store = [k \in Keys |-> None]
    /\ origin = [k \in Keys |-> None]
    /\ fn \in KeyCalls
    /\ default_costs = DEFAULT_COSTS

CreateCacheKey ==
    /\ fn.op = "create_cache_key" /\ ~fn.applied
    /\ LET a == IF Len(fn.ret) = 0 THEN fn.first ELSE fn.second
       IN  fn' = [fn EXCEPT !.ret = Append(@, create_cache_key(a.agent, a.prompt, a.kwargs)),
                            !.applied = Len(fn.ret) = 1]
    /\ UNCHANGED <<calls, store, origin, default_costs>>

NextKey == CreateCacheKey

SpecKey == InitKey /\ [][NextKey]_vars

(***************************************************************************)
(* Specification of the shared price table: the callers price requests,    *)
(* directly or at line 189 of a cached run, one after the other in any     *)
(* order (get_model_costs does not await). fn collects the pricing calls   *)
(* made so far, each with what it returned or raised.                      *)
(***************************************************************************)
MaxPricings == 2

PricedModels == {KnownModel, <<"mystery">>, <<"gemini-">>}

InitShared ==
    /\ calls = [c \in Calls |-> IdleCall]
    /\ store = [k \in Keys |-> None]
    /\ origin = [k \in Keys |-> None]
    /\ fn = [op |-> "pricing", done |-> <<>>]
    /\ default_costs = DEFAULT_COSTS

PricingCall(c, model_name, custom_costs) ==
    /\ fn.op = "pricing" /\ Len(fn.done) < MaxPricings
    /\ fn' = [fn EXCEPT !.done =
                 Append(@, [caller |-> c, model_name |-> model_name,
                            custom_costs |-> custom_costs,
                            ret |-> get_model_costs_in(default_costs, model_name,
                                                       custom_costs)])]
    /\ default_costs' = DefaultCostsAfter(default_costs, custom_costs)
    /\ UNCHANGED <<calls, store, origin>>

NextShared ==
    \E c \in Calls, m \in PricedModels, cu \in CustomCosts : PricingCall(c, m, cu)

SpecShared == InitShared /\ [][NextShared]_vars

(***************************************************************************)
(* agent.py lines 234-274: cached_agent_run_sync. The first caller calls   *)
(* it from synchronous code: asyncio.run makes an event loop, runs the     *)
(* coroutine cached_agent_run(agent, prompt, task_name, *args, **kwargs)   *)
(* to its end and hands its value or its exception to the caller. fn is    *)
(* that call: the arguments given, where it is, what the caller got. The   *)
(* other callers await cached_agent_run themselves.                        *)
(***************************************************************************)
\* variant: only agent and prompt reach cached_agent_run
PassedOn_NoOptions(args) == DefaultArgs(args.agent, args.prompt)

\* the arguments cached_agent_run receives
PassedOn(args) == args

\* variant: an exception of the coroutine is swallowed
asyncio_run_Swallows(ret) ==
    IF ret.type = "raise" THEN [type |-> "return", value |-> None] ELSE ret

\* what the caller of asyncio.run gets for what the coroutine ended with
asyncio_run(ret) == ret

SyncArgs ==
    LET A == DefaultArgs(AgentA, Hi)
    IN  {[A EXCEPT !.ttl = 60], [A EXCEPT !.skip_cache = TRUE],
         [A EXCEPT !.environ = None]}

AgentOutcomes(C) == Results \cup {Exc("OtherError", "agent", C.n_agent)}

InitSync ==
    /\ calls = [c \in Calls |-> IdleCall]
    /\ store = [k \in Keys |-> None]
    /\ origin = [k \in Keys |-> None]
    /\ fn = [op |-> "cached_agent_run_sync", at |-> "idle", args |-> None, ret |-> None]
    /\ default_costs = DEFAULT_COSTS

SyncCall(args) ==
    /\ fn.op = "cached_agent_run_sync" /\ fn.at \in {"idle", "returned"}
    /\ calls[Caller].pc = "idle"
    /\ fn' = [fn EXCEPT !.at = "running", !.args = args, !.ret = None]
    /\ UNCHANGED <<calls, store, origin, default_costs>>

SyncBegin ==
    /\ fn.op = "cached_agent_run_sync" /\ fn.at = "running"
    /\ Begin(Caller, PassedOn(fn.args), TRUE)

SyncReturn ==
    /\ fn.op = "cached_agent_run_sync" /\ fn.at = "running"
    /\ calls[Caller].pc = "done"
    /\ fn' = [fn EXCEPT !.at = "returned", !.ret = asyncio_run(calls[Caller].ret)]
    /\ UNCHANGED <<calls, store, origin, default_costs>>

SyncFinish == fn.at = "returned" /\ Finish(Caller)

NextSync ==
    \/ \E a \in SyncArgs : SyncCall(a)
    \/ SyncBegin
    \/ SyncReturn
    \/ SyncFinish
    \/ \E c \in Calls \ {Caller}, a \in SyncArgs : Begin(c, a, TRUE)
    \/ \E c \in Calls \ {Caller} : Finish(c)
    \/ \E c \in Calls : ReportZeroCost(c, Ok)
    \/ \E c \in Calls : \E o \in AgentOutcomes(calls[c]) : AgentRun(c, o, 0)
    \/ \E c \in Calls : Report(c, Ok, Ok, 0)

SpecSync == InitSync /\ [][NextSync]_vars

(***************************************************************************)
(* config.py lines 48-91: clear_cache and clear_cache_async. Both get a    *)
(* client, ask the server for DBSIZE, send FLUSHDB and return the size     *)
(* they were told; clear_cache_async closes its client before it returns.  *)
(* DBSIZE and FLUSHDB are two commands: the server serves other clients    *)
(* between them. clear_cache does not await, so the tasks of its own event *)
(* loop stand still until it has returned; clear_cache_async awaits the    *)
(* client, each command and aclose, and the other tasks run meanwhile.     *)
(* fn is the call: seen and flushed are the keys DBSIZE and FLUSHDB found  *)
(* in the database, deleted the number of keys FLUSHDB removed, left the   *)
(* keys in the database at the moment the call returns.                    *)
(***************************************************************************)
keys(st) == {k \in DOMAIN st : st[k] # None}

dbsize(st) == Cardinality(keys(st))

flushdb(st) == [k \in DOMAIN st |-> None]

ClearNames == {"clear_cache", "clear_cache_async"}

\* the url argument and LLM_CACHE_REDIS_URL of a clearing call
ClearUrls == { [url |-> None, environ |-> RedisUrl],
               [url |-> RedisUrl, environ |-> None],
               [url |-> None, environ |-> None] }

\* the calls of cached_agent_run made next to the clearing: two keys
ClearArgs ==
    { DefaultArgs(AgentA, Hi),
      [DefaultArgs(AgentB, Hi) EXCEPT !.custom_costs =
          Dict(<< [key |-> <<"mystery">>, value |-> ModelCosts(100000, 200000, 50000, 0)] >>)] }

\* what the agent returns to those calls
ClearResults == {AgentRunResult("o1", [request_tokens |-> 10, response_tokens |-> 5])}

NoClear == [op |-> "clear_cache", at |-> "idle", client |-> None, count |-> 0,
            deleted |-> 0, seen |-> {}, flushed |-> {}, left |-> {}, ret |-> None]

InitClear ==
    /\ calls = [c \in Calls |-> IdleCall]
    /\ store = [k \in Keys |-> None]
    /\ origin = [k \in Keys |-> None]
    /\ fn = NoClear
    /\ default_costs = DEFAULT_COSTS

\* config.py lines 63 and 85
ClearCall(name, u) ==
    /\ fn.op \in ClearNames /\ fn.at \in {"idle", "returned"}
    /\ LET client == get_redis_client(u.url, u.environ)
       IN  fn' = IF IsException(client)
                 THEN [NoClear EXCEPT !.op = name, !.at = "returned",
                                      !.left = keys(store),
                                      !.ret = [type |-> "raise", exc |-> client]]
                 ELSE [NoClear EXCEPT !.op = name, !.at = "dbsize", !.client = client]
    /\ UNCHANGED <<calls, store, origin, default_costs>>

\* config.py lines 65 and 87
ClearDbsize ==
    /\ fn.op \in ClearNames /\ fn.at = "dbsize"
    /\ fn' = [fn EXCEPT !.at = "flushdb", !.count = dbsize(store), !.seen = keys(store)]
    /\ UNCHANGED <<calls, store, origin, default_costs>>

\* config.py lines 65-67 (flushdb in the finally clause, then the return of
\* the size read) and lines 88-89
ClearFlushdb ==
    /\ fn.op \in ClearNames /\ fn.at = "flushdb"
    /\ store' = flushdb(store)
    /\ origin' = [k \in Keys |-> None]
    /\ fn' = [fn EXCEPT !.at = IF fn.op = "clear_cache" THEN "returned" ELSE "aclose",
                        !.deleted = dbsize(store), !.flushed = keys(store),
                        !.left = keys(flushdb(store)),
                        !.ret = [type |-> "return", value |-> fn.count]]
    /\ UNCHANGED <<calls, default_costs>>

\* config.py lines 90-91
ClearAclose ==
    /\ fn.op = "clear_cache_async" /\ fn.at = "aclose"
    /\ fn' = [fn EXCEPT !.at = "returned", !.left = keys(store)]
    /\ UNCHANGED <<calls, store, origin, default_costs>>

\* the tasks of the event loop can run
LoopFree == fn.op = "clear_cache_async" \/ fn.at \in {"idle", "returned"}

\* the keys of the calls made next to the clearing
ClearKeys == {create_cache_key(a.agent, a.prompt, a.kwargs) : a \in ClearArgs}

NextClear ==
    \/ \E name \in ClearNames, u \in ClearUrls : ClearCall(name, u)
    \/ ClearDbsize
    \/ ClearFlushdb
    \/ ClearAclose
    \/ \E a \in ClearArgs : LoopFree /\ Begin(Caller, a, TRUE)
    \/ LoopFree /\ ReportZeroCost(Caller, Ok)
    \/ \E o \in ClearResults : LoopFree /\ AgentRun(Caller, o, 0)
    \/ LoopFree /\ Report(Caller, Ok, Ok, 0)
    \/ LoopFree /\ Finish(Caller)
    \/ \E k \in ClearKeys : Expire(k)
    \/ \E k \in ClearKeys : ExternalSet(k, Bytes(<<>>, None))

SpecClear == InitClear /\ [][NextClear]_vars

(***************************************************************************)
(* The claims.                                                             *)
(***************************************************************************)
Returned(C, v) == C.ret = [type |-> "return", value |-> v]

\* after agent.run returned, neither calculate_cost nor the expense recorder
\* nor the store write raised
CleanAfterRun(C) ==
    C.faults.price = 0 /\ C.faults.recorder = 0 /\ C.faults.store = 0

\* the call ended on a hit that decoded and whose zero-cost report returned
HitServed(C) ==
    C.pc = "done" /\ ~C.args.skip_cache /\ C.lookup = "hit" /\ C.hit_report = "ok"

\* C1: a call with skip_cache false whose lookup returns a payload that
\* decodes and whose expense recorder returns normally returns the decoded
\* entry, has invoked the expense recorder exactly once, with
\* (model, task_name, 0), has not invoked the agent and has not written to
\* the store.
C1_HitReturnsEntry ==
    \A c \in Calls :
        HitServed(calls[c]) =>
            /\ Returned(calls[c], calls[c].store0[calls[c].cache_key].payload.obj)
            /\ calls[c].n_reports = 1
            /\ calls[c].report = [type |-> "report",
                                  model |-> _get_model_name(calls[c].args.agent),
                                  task_name |-> calls[c].args.task_name,
                                  cost |-> 0, raised |-> FALSE]
            /\ calls[c].n_agent = 0
            /\ calls[c].n_writes = 0
            /\ store = calls[c].store0

C1_Witness == \E c \in Calls : HitServed(calls[c])

\* the call ended after a lookup that missed and an agent invocation that
\* returned, with nothing raised after it
MissServed(C) ==
    /\ C.pc = "done" /\ ~C.args.skip_cache /\ C.lookup = "miss"
    /\ C.n_ok >= 1 /\ CleanAfterRun(C)

SecondCall(C) ==
    /\ C.pc = "done" /\ ~C.args.skip_cache /\ C.origin0.type = "AgentRunResult"
    /\ C.lookup \notin {"none", "error"} /\ C.hit_report # "raised"

C4_SameShape ==
    \A c \in Calls :
        (HitServed(calls[c]) /\ calls[c].origin0.type = "AgentRunResult") =>
            DOMAIN calls[c].ret.value = DOMAIN calls[c].origin0

\* floor(log2(max / w)) for 0 < w <= max
RECURSIVE Doublings(_, _)
Doublings(w, max) == IF 2 * w <= max THEN 1 + Doublings(2 * w, max) ELSE 0

WaitsAllowed(C) == Doublings(C.args.initial_wait, C.args.max_wait) + 1

\* every agent invocation of the call so far signalled a rate limit
AllRateLimited(C) ==
    C.n_agent >= 1 /\ C.faults.agent = C.n_agent /\ C.rl_hits = C.n_agent

\* C5: when the agent signals a rate limit on every attempt, the call waits
\* floor(log2(max_wait / initial_wait)) + 1 times and then fails with the
\* pending rate-limit error: it never waits more often than that.
C5_RateLimitGivesUp ==
    \A c \in Calls :
        AllRateLimited(calls[c]) =>
            /\ Len(calls[c].rl_waits) <= WaitsAllowed(calls[c])
            /\ calls[c].pc = "done" =>
                   /\ calls[c].ret = [type |-> "raise", exc |-> calls[c].last_error]
                   /\ Len(calls[c].rl_waits) = WaitsAllowed(calls[c])

\* C6: the k-th rate-limit wait of a call lasts initial_wait * 2^(k-1), and
\* no rate-limit wait is longer than max_wait.
C6_WaitsDoubleBelowCeiling ==
    \A c \in Calls :
        \A k \in 1..Len(calls[c].rl_waits) :
            /\ calls[c].rl_waits[k] = calls[c].args.initial_wait * Pow2(k - 1)
            /\ calls[c].rl_waits[k] <= calls[c].args.max_wait

\* the call ended and every agent invocation in it raised a connection-class error
AllConnectionFailed(C) ==
    /\ C.pc = "done" /\ C.n_agent >= 1
    /\ C.faults.agent = C.n_agent /\ C.retry_count = C.n_agent

\* C7: when every agent invocation fails with a connection-class error, the
\* agent is invoked exactly max_retries times, the call fails with the
\* package's ConnectionError whose cause is the last underlying error, no
\* expense is recorded and nothing is written to the store.
C7_ConnectionErrorWrapsCause ==
    \A c \in Calls :
        AllConnectionFailed(calls[c]) =>
            /\ calls[c].n_agent = calls[c].max_retries
            /\ calls[c].ret.type = "raise"
            /\ calls[c].ret.exc.type = "ConnectionError"
            /\ calls[c].ret.exc.cause = calls[c].raised
            /\ calls[c].n_reports = 0
            /\ calls[c].n_writes = 0
            /\ store = calls[c].store0

\* agent.run raised, last, an error that is neither a rate-limit signal nor
\* of the connection class
AgentFailedOtherwise(C) ==
    /\ C.raised # None
    /\ C.raised.origin = "agent"
    /\ C.raised.type \notin {"UsageLimitExceeded"} \cup ConnectionClass

\* C8: when agent.run fails with an error that is neither a rate-limit
\* signal nor a connection-class error, the call fails with that same error
\* in the invocation in which it occurred: no wait, no further invocation,
\* no expense report and no store write follow it.
C8_OtherErrorPropagates ==
    \A c \in Calls :
        AgentFailedOtherwise(calls[c]) =>
            /\ calls[c].pc = "done"
            /\ calls[c].ret = [type |-> "raise", exc |-> calls[c].raised]
            /\ calls[c].raised.at + 1 = calls[c].n_agent
            /\ calls[c].steps = <<"agent", "raise">>
            /\ calls[c].n_reports = 0
            /\ calls[c].n_writes = 0
            /\ store = calls[c].store0

C8_Witness ==
    \E c \in Calls : AgentFailedOtherwise(calls[c]) /\ calls[c].n_agent > 1

\* the store failed in the call (the read raised, the payload was corrupt or
\* the write raised), agent.run returned and nothing else raised
StoreFailedOnly(C) ==
    /\ C.pc = "done"
    /\ C.lookup \in {"error", "corrupt"} \/ C.faults.store > 0
    /\ C.n_ok >= 1
    /\ C.faults.agent = 0 /\ C.faults.price = 0 /\ C.faults.recorder = 0
    /\ C.hit_report = "none"

\* C9: no failure of the store makes a call fail: whether the read raises,
\* the payload is corrupt or the write raises, the call returns the agent's
\* result.
C9_StoreNeverFailsCall ==
    \A c \in Calls : StoreFailedOnly(calls[c]) => Returned(calls[c], calls[c].result)

CorruptServed(C) ==
    /\ C.pc = "done" /\ C.lookup = "corrupt"
    /\ C.n_ok >= 1 /\ C.faults.agent = 0 /\ CleanAfterRun(C)

\* C11: a call that finds a payload which does not decode reports no
\* zero-cost expense, invokes the agent exactly once, returns its result and
\* leaves under the key a fresh entry that decodes to the snapshot of that
\* result, so that the next lookup of the key is a hit.
C11_CorruptIsMiss ==
    \A c \in Calls :
        /\ calls[c].lookup = "corrupt" =>
               /\ calls[c].hit_report = "none"
               /\ calls[c].pc # "report_zero"
               /\ calls[c].pc = "done" =>
                      \/ calls[c].n_agent >= 1
                      \/ calls[c].ret.type = "raise" /\ calls[c].ret.exc.type = "RuntimeError"
        /\ CorruptServed(calls[c]) =>
               LET C == calls[c]
                   now == store[C.cache_key]
               IN  /\ IsException(pickle_loads(C.store0[C.cache_key].payload))
                   /\ C.n_agent = 1
                   /\ C.n_reports = 1 /\ C.report.cost = C.cost
                   /\ Returned(C, C.result)
                   /\ now # None
                   /\ Truthy(now.payload)
                   /\ pickle_loads(now.payload) =
                          [type |-> "CachedResult", output |-> C.result.output,
                           usage |-> C.result.usage,
                           model |-> _get_model_name(C.args.agent), cost |-> C.cost]
                   /\ origin[C.cache_key] = C.result

C11_Witness == \E c \in Calls : CorruptServed(calls[c]) /\ calls[c].args.ttl = 60

\* C12: a call with skip_cache true builds no store client, neither reads
\* nor writes the store and never fails with a configuration error; it
\* invokes the agent under the retry policy and, once agent.run has returned
\* and the cost is priced, reports that cost once and returns the result.
C12_SkipCacheLeavesStore ==
    \A c \in Calls :
        (calls[c].pc # "idle" /\ calls[c].args.skip_cache) =>
            LET C == calls[c]
            IN  /\ C.redis_client = None
                /\ C.lookup = "none" /\ C.cached_result = None
                /\ C.hit_report = "none"
                /\ C.n_writes = 0 /\ C.faults.store = 0
                /\ store = C.store0
                /\ C.pc = "done" =>
                       /\ C.ret.type = "raise" => C.ret.exc.type # "ConfigurationError"
                       /\ \/ C.n_agent >= 1
                          \/ C.ret.type = "raise" /\ C.ret.exc.type = "RuntimeError"
                /\ (C.pc = "done" /\ C.n_ok >= 1 /\ C.faults.price = 0
                                  /\ C.faults.recorder = 0) =>
                       /\ C.n_reports = 1
                       /\ C.report.cost = calculate_cost(_get_model_name(C.args.agent),
                                                         C.result, C.args.custom_costs).value
                       /\ Returned(C, C.result)

C12_Witness ==
    \E c \in Calls : /\ calls[c].pc = "done" /\ calls[c].args.skip_cache
                     /\ calls[c].args.environ = None
                     /\ calls[c].n_ok >= 1 /\ calls[c].n_reports = 1
                     /\ calls[c].store0[create_cache_key(calls[c].args.agent,
                                                         calls[c].args.prompt,
                                                         calls[c].args.kwargs)] # None

\* two calls with the same key that both began while the store held no
\* entry under it, and that have both returned
ConcurrentPair(c, d) ==
    /\ c # d
    /\ calls[c].pc = "done" /\ calls[d].pc = "done"
    /\ calls[c].cache_key = calls[d].cache_key
    /\ calls[c].store0[calls[c].cache_key] = None
    /\ calls[d].store0[calls[d].cache_key] = None
    /\ calls[c].ret.type = "return" /\ calls[d].ret.type = "return"

\* C13: calls with the same agent and prompt that run concurrently against
\* a store without an entry for their key all return the same output, and
\* the agent is invoked once in total.
C13_ConcurrentCallsInvokeOnce ==
    \A c, d \in Calls :
        ConcurrentPair(c, d) =>
            /\ calls[c].ret.value.output = calls[d].ret.value.output
            /\ calls[c].n_agent + calls[d].n_agent = 1

\* C14: two concurrent calls with the same key that both missed have each
\* invoked the agent and returned their own result; at least one of the two
\* writes replaced an entry, and what a write replaced decodes; when these
\* two are all the calls there are, the write of the later one replaced the
\* entry of the earlier one and the store holds the snapshot of the later
\* one. The store holds under the key the snapshot of the last writer, which
\* decodes: a call that begins now is a hit. A call that finds an entry hits.
C14_BothMissLaterWriteWins ==
    /\ \A c, d \in Calls :
           ConcurrentPair(c, d) =>
               LET C == calls[c]
                   D == calls[d]
                   key == C.cache_key
                   Snapshot(X) == [type |-> "CachedResult", output |-> X.result.output,
                                   usage |-> X.result.usage,
                                   model |-> _get_model_name(X.args.agent),
                                   cost |-> X.cost]
                   Later(X, Y) ==
                       /\ X.write.over = None
                       /\ Y.write.over = X.write.entry
                       /\ store[key] = Y.write.entry
                       /\ pickle_loads(store[key].payload) = Snapshot(Y)
                       /\ store[key].ex = Y.args.ttl
                   Decodes(entry) ==
                       /\ Truthy(entry.payload)
                       /\ pickle_loads(entry.payload).type = "CachedResult"
               IN  /\ C.lookup = "miss" /\ D.lookup = "miss"
                   /\ C.n_agent = 1 /\ D.n_agent = 1
                   /\ Returned(C, C.result) /\ Returned(D, D.result)
                   /\ C.n_writes = 1 /\ D.n_writes = 1
                   /\ C.write.over # None \/ D.write.over # None
                   /\ C.write.over # None => Decodes(C.write.over)
                   /\ D.write.over # None => Decodes(D.write.over)
                   /\ Calls = {c, d} => Later(C, D) \/ Later(D, C)
                   /\ store[key] # None /\ Decodes(store[key])
                   /\ pickle_loads(store[key].payload).output = origin[key].output
                   /\ pickle_loads(store[key].payload).usage = origin[key].usage
                   /\ Truthy(store[key].payload)
    /\ \A c \in Calls :
           calls[c].pc = "done" => calls[c].ret.type = "return"
    /\ \A c \in Calls :
           (calls[c].pc # "idle" /\ calls[c].store0[calls[c].cache_key] # None) =>
               calls[c].lookup = "hit" /\ calls[c].n_agent = 0

C14_Witness ==
    \E c, d \in Calls :
        /\ ConcurrentPair(c, d)
        /\ calls[c].result.output # calls[d].result.output
        /\ calls[c].args.ttl # calls[d].args.ttl
        /\ store[calls[c].cache_key] = calls[d].write.entry

C14_WitnessLaterHit ==
    \E c \in Calls : /\ calls[c].pc = "done" /\ calls[c].lookup = "hit"
                     /\ \E d \in Calls : d # c /\ calls[d].pc = "done"
                                               /\ calls[d].lookup = "miss"

\* the model identifier is a key of the default table or of the custom rates
InTable(model_name, custom_costs) ==
    \/ HasKey(DEFAULT_COSTS, model_name)
    \/ Truthy(custom_costs) /\ HasKey(custom_costs.value, model_name)

\* the model identifier is the beginning of a key of either table
BeginsKey(model_name, custom_costs) ==
    \/ \E i \in 1..Len(DEFAULT_COSTS) : StartsWith(DEFAULT_COSTS[i].key, model_name)
    \/ /\ Truthy(custom_costs)
       /\ \E i \in 1..Len(custom_costs.value) :
              StartsWith(custom_costs.value[i].key, model_name)

\* what a call looks like whose pricing failed with the cost-lookup error:
\* it ended at once with the ValueError, in the attempt in which agent.run
\* returned, with no cost reported and nothing written
PricingFailed(C) ==
    /\ C.pc = "done"
    /\ C.ret.type = "raise" /\ C.ret.exc.type = "ValueError"
    /\ C.ret.exc.origin = "costs"
    /\ C.n_ok = 1
    /\ C.steps = <<"agent", "price", "raise">>
    /\ C.hit_report = "none" => C.n_reports = 0
    /\ C.n_reports > 0 => C.report.cost = 0
    /\ C.n_writes = 0
    /\ store = C.store0

CustomEntries(custom_costs) ==
    IF custom_costs.type = "dict" THEN custom_costs.value ELSE <<>>

\* the table the lookup enumerates: the default keys in their order, each
\* with the custom rate when there is one, then the keys only custom has
MergedTable(custom_costs) ==
    LET custom == CustomEntries(custom_costs)
        Rate(k, v) == IF \E j \in 1..Len(custom) : custom[j].key = k
                      THEN custom[CHOOSE j \in 1..Len(custom) : custom[j].key = k].value
                      ELSE v
        IsNew(e) == \A i \in 1..Len(DEFAULT_COSTS) : DEFAULT_COSTS[i].key # e.key
    IN  [i \in 1..Len(DEFAULT_COSTS) |->
            [key |-> DEFAULT_COSTS[i].key,
             value |-> Rate(DEFAULT_COSTS[i].key, DEFAULT_COSTS[i].value)]]
        \o SelectSeq(custom, IsNew)

\* the rates of the first entry of the table whose key satisfies Fits, the
\* ValueError when there is none
FirstWith(table, Fits(_)) ==
    LET hits == {i \in 1..Len(table) : Fits(table[i].key)}
    IN  IF hits = {} THEN [type |-> "ValueError", origin |-> "costs"]
        ELSE table[CHOOSE i \in hits : \A j \in hits : i <= j].value

\* an exact match: the custom rate before the default one
ExactRate(model_name, custom_costs) ==
    LET IsModel(k) == k = model_name
    IN  FirstWith(CustomEntries(custom_costs) \o DEFAULT_COSTS, IsModel)

RatesFor(model_name, custom_costs) ==
    LET Begins(k) == StartsWith(k, model_name)
        exact == ExactRate(model_name, custom_costs)
    IN  IF exact.type # "ValueError" THEN exact
        ELSE FirstWith(MergedTable(custom_costs), Begins)

\* the counts a usage object reports, 0 for what it lacks
Reported(usage) ==
    LET Of(rec, name) == IF name \in DOMAIN rec THEN rec[name] ELSE 0
        details == IF "details" \in DOMAIN usage THEN usage.details ELSE <<>>
    IN  [request_tokens |-> Of(usage, "request_tokens"),
         response_tokens |-> Of(usage, "response_tokens"),
         cached_input_tokens |-> Of(details, "cached_input_tokens"),
         cached_output_tokens |-> Of(details, "cached_output_tokens")]

\* max(0, total - cached)
Ordinary(total, cached) == IF total > cached THEN total - cached ELSE 0

\* the price of the formula, in the units of the model
Price(rates, usage) ==
    LET u == Reported(usage)
    IN  Ordinary(u.request_tokens, u.cached_input_tokens)
            * rates.cost_per_million_input_tokens
        + Ordinary(u.response_tokens, u.cached_output_tokens)
            * rates.cost_per_million_output_tokens
        + u.cached_input_tokens * rates.cost_per_million_caching_input_tokens
        + u.cached_output_tokens * rates.cost_per_million_caching_hit_tokens

\* 1,000,000 input tokens and no others, at an input rate of 3.0
MillionInputAtThree ==
    /\ fn.op = "calculate_cost"
    /\ Reported(fn.usage) = [request_tokens |-> 1000, response_tokens |-> 0,
                             cached_input_tokens |-> 0, cached_output_tokens |-> 0]
    /\ RatesFor(fn.model_name, fn.custom_costs).type = "ModelCosts"
    /\ RatesFor(fn.model_name, fn.custom_costs).cost_per_million_input_tokens = 300000

CountNames ==
    {"request_tokens", "response_tokens", "cached_input_tokens", "cached_output_tokens"}

\* a usage object that reports the counts u
UsageOf(u) ==
    [request_tokens |-> u.request_tokens, response_tokens |-> u.response_tokens,
     details |-> [cached_input_tokens |-> u.cached_input_tokens,
                  cached_output_tokens |-> u.cached_output_tokens]]

\* the usage with one reported count raised by n, the others as they are
Raised(usage, name, n) ==
    UsageOf([Reported(usage) EXCEPT ![name] = @ + n])

\* the usage with every reported count doubled
Doubled(usage) ==
    UsageOf([name \in CountNames |-> 2 * Reported(usage)[name]])

\* what calculate_cost returns for the model of fn and another usage
CostOf(usage) ==
    calculate_cost(fn.model_name, AgentRunResult("o1", usage), fn.custom_costs).value

\* usages at which the cost of one more count is taken for comparison:
\* nothing cached, less cached than the totals, more cached than the totals
ReferenceUsages ==
    { UsageOf([request_tokens |-> rt, response_tokens |-> rt,
               cached_input_tokens |-> ct, cached_output_tokens |-> ct]) :
          <<rt, ct>> \in {<<0, 0>>, <<5, 1>>, <<1, 5>>} }

Priced == fn.op = "calculate_cost" /\ fn.applied /\ fn.ret.type = "float"

\* the cost of all-zero counts is 0, and doubling every count doubles it
ZeroAndDoubling ==
    /\ (\A name \in CountNames : Reported(fn.usage)[name] = 0) => fn.ret.value = 0
    /\ CostOf(Doubled(fn.usage)) = 2 * fn.ret.value

\* C18 as stated: calculate_cost is linear in each count the usage object
\* reports: zero counts cost 0, doubling every count doubles the cost, and
\* raising one count by n raises the cost by n times a rate that is the
\* same wherever the count is raised.
C18_LinearInReportedCounts ==
    Priced =>
        /\ ZeroAndDoubling
        /\ \A name \in CountNames, n \in 1..MaxRaise, v \in ReferenceUsages :
               CostOf(Raised(fn.usage, name, n)) - fn.ret.value
                   = n * (CostOf(Raised(v, name, 1)) - CostOf(v))

\* C18, amended: zero counts cost 0 and doubling every count doubles the
\* cost; raising a total by n raises the cost by n times the ordinary rate
\* when the total is not below the cached count, and by nothing while the
\* total stays below it; raising a cached count by n changes the cost by n
\* times (cache rate - ordinary rate) while it stays within the total, and
\* by n times the cache rate when it is not below the total.
C18_LinearBetweenClamps ==
    Priced =>
        LET r == RatesFor(fn.model_name, fn.custom_costs)
            u == Reported(fn.usage)
            Inc(name, n) == CostOf(Raised(fn.usage, name, n)) - fn.ret.value
            Total(total, cached, ordinary_rate, cache_rate) ==
                \A n \in 1..MaxRaise :
                    /\ u[total] >= u[cached] => Inc(total, n) = n * ordinary_rate
                    /\ u[total] + n <= u[cached] => Inc(total, n) = 0
                    /\ u[cached] + n <= u[total] =>
                           Inc(cached, n) = n * (cache_rate - ordinary_rate)
                    /\ u[cached] >= u[total] => Inc(cached, n) = n * cache_rate
        IN  /\ ZeroAndDoubling
            /\ Total("request_tokens", "cached_input_tokens",
                     r.cost_per_million_input_tokens,
                     r.cost_per_million_caching_input_tokens)
            /\ Total("response_tokens", "cached_output_tokens",
                     r.cost_per_million_output_tokens,
                     r.cost_per_million_caching_hit_tokens)

C18_Witness ==
    /\ Priced
    /\ \A name \in CountNames : Reported(fn.usage)[name] > 0
    /\ Reported(fn.usage).cached_input_tokens < Reported(fn.usage).request_tokens
    /\ Reported(fn.usage).cached_output_tokens < Reported(fn.usage).response_tokens
    /\ fn.ret.value > 0
    /\ CostOf(Doubled(fn.usage)) = 2 * fn.ret.value

\* C19: get_token_counts returns four counters, none negative; what the
\* usage object or its details map lacks counts as 0; the cached counters
\* are the reported ones and each ordinary counter is max(0, total -
\* cached): exactly 0 when the cached count exceeds the total.
C19_CountsClamped ==
    (fn.op = "get_token_counts" /\ fn.applied) =>
        LET u == Reported(fn.usage)
        IN  /\ DOMAIN fn.ret = {"input_tokens", "output_tokens",
                                "cached_input_tokens", "cached_output_tokens"}
            /\ \A name \in DOMAIN fn.ret : fn.ret[name] >= 0
            /\ fn.ret.cached_input_tokens = u.cached_input_tokens
            /\ fn.ret.cached_output_tokens = u.cached_output_tokens
            /\ fn.ret.input_tokens = Ordinary(u.request_tokens, u.cached_input_tokens)
            /\ fn.ret.output_tokens = Ordinary(u.response_tokens, u.cached_output_tokens)
            /\ u.cached_input_tokens > u.request_tokens => fn.ret.input_tokens = 0
            /\ u.cached_output_tokens > u.response_tokens => fn.ret.output_tokens = 0
            /\ "request_tokens" \notin DOMAIN fn.usage =>
                   fn.ret.input_tokens = 0
            /\ "details" \notin DOMAIN fn.usage =>
                   /\ fn.ret.cached_input_tokens = 0 /\ fn.ret.cached_output_tokens = 0
                   /\ fn.ret.input_tokens = u.request_tokens
                   /\ fn.ret.output_tokens = u.response_tokens

C19_Witness ==
    /\ fn.op = "get_token_counts" /\ fn.applied
    /\ "response_tokens" \notin DOMAIN fn.usage
    /\ "details" \in DOMAIN fn.usage
    /\ "cached_output_tokens" \notin DOMAIN fn.usage.details
    /\ Reported(fn.usage).cached_input_tokens > Reported(fn.usage).request_tokens
    /\ Reported(fn.usage).request_tokens > 0
    /\ fn.ret.input_tokens = 0

\* what a message_history argument says: its messages, none when the
\* argument is missing, None or empty
HistoryContent(kwargs) ==
    IF "message_history" \in DOMAIN kwargs /\ Truthy(kwargs.message_history)
    THEN kwargs.message_history.value
    ELSE <<>>

\* the shape of the declared output schema: its entries at every level, in
\* no order
ValueShape(v) ==
    IF v.type = "dict"
    THEN [type |-> "dict", entries |-> {v.items[i] : i \in 1..Len(v.items)}]
    ELSE [type |-> "str", entries |-> {v.value}]

SchemaShape(agent) ==
    IF agent.output_type.type = "schema"
    THEN {<<agent.output_type.items[i][1], ValueShape(agent.output_type.items[i][2])>> :
              i \in 1..Len(agent.output_type.items)}
    ELSE {}

\* the entries of the schema dict itself, in no order, each value as built
TopLevel(agent) ==
    IF agent.output_type.type = "schema"
    THEN {agent.output_type.items[i] : i \in 1..Len(agent.output_type.items)}
    ELSE {}

HasShape(agent) == agent.output_type.type \in {"None", "schema"}

KeysMade == fn.op = "create_cache_key" /\ fn.applied

\* the two calls differ in the prompt only, in the history content only, or
\* in the output-schema shape only
OnlyPromptChanged ==
    /\ fn.first.prompt # fn.second.prompt
    /\ fn.first.agent = fn.second.agent
    /\ fn.first.kwargs = fn.second.kwargs

OnlyHistoryChanged ==
    /\ HistoryContent(fn.first.kwargs) # HistoryContent(fn.second.kwargs)
    /\ fn.first.agent = fn.second.agent
    /\ fn.first.prompt = fn.second.prompt

OnlySchemaChanged ==
    /\ HasShape(fn.first.agent) /\ HasShape(fn.second.agent)
    /\ SchemaShape(fn.first.agent) # SchemaShape(fn.second.agent)
    /\ fn.first.agent.id = fn.second.agent.id
    /\ fn.first.agent.str = fn.second.agent.str
    /\ fn.first.prompt = fn.second.prompt
    /\ fn.first.kwargs = fn.second.kwargs

\* the second agent is the first one built again
BuiltAgain ==
    /\ fn.first.agent.id # fn.second.agent.id
    /\ fn.first.agent.str = fn.second.agent.str
    /\ fn.first.agent.model = fn.second.agent.model
    /\ fn.first.agent.output_type.type = fn.second.agent.output_type.type
    /\ TopLevel(fn.first.agent) = TopLevel(fn.second.agent)
    /\ fn.first.prompt = fn.second.prompt
    /\ fn.first.kwargs = fn.second.kwargs

C20_SameArgumentsSameKey ==
    KeysMade /\ fn.first = fn.second => fn.ret[1] = fn.ret[2]

C20_BuiltAgainSameKey ==
    KeysMade /\ BuiltAgain => fn.ret[1] = fn.ret[2]

C20_PromptChangesKey ==
    KeysMade /\ OnlyPromptChanged => fn.ret[1] # fn.ret[2]

C20_SchemaChangesKey ==
    KeysMade /\ OnlySchemaChanged => fn.ret[1] # fn.ret[2]

C20_HistoryChangesKey ==
    KeysMade /\ OnlyHistoryChanged => fn.ret[1] # fn.ret[2]

\* C20: create_cache_key gives equal keys for equal arguments and for an
\* equivalent agent built again, and different keys when exactly one of the
\* prompt, the history content and the output-schema shape is changed.
C20_KeyDeterministicAndSensitive ==
    /\ C20_SameArgumentsSameKey
    /\ C20_BuiltAgainSameKey
    /\ C20_PromptChangesKey
    /\ C20_SchemaChangesKey
    /\ C20_HistoryChangesKey

\* the options handed on to agent.run besides the history are the same
SameForwarded(k1, k2) ==
    LET d1 == DOMAIN k1 \ {"message_history"}
        d2 == DOMAIN k2 \ {"message_history"}
    IN  d1 = d2 /\ \A name \in d1 : k1[name] = k2[name]

\* agent identity, prompt, history and output schema are the same
SameCombination ==
    /\ fn.first.agent.str = fn.second.agent.str
    /\ fn.first.prompt = fn.second.prompt
    /\ HistoryContent(fn.first.kwargs) = HistoryContent(fn.second.kwargs)
    /\ fn.first.agent.output_type.type = fn.second.agent.output_type.type
    /\ SchemaShape(fn.first.agent) = SchemaShape(fn.second.agent)

C21_NoTwoCombinationsOneKey ==
    KeysMade /\ fn.ret[1] = fn.ret[2] => SameCombination

C21_ForwardedOptionsInKey ==
    KeysMade /\ fn.ret[1] = fn.ret[2] => SameForwarded(fn.first.kwargs, fn.second.kwargs)

C21_SameInputsSameKey ==
    KeysMade /\ SameCombination /\ SameForwarded(fn.first.kwargs, fn.second.kwargs)
        => fn.ret[1] = fn.ret[2]

\* C21: two calls get the same cache key exactly when agent identity,
\* prompt, conversation history, output schema and the options forwarded to
\* the agent are all the same; no two different combinations of identity,
\* prompt, history and schema are joined to the same string.
C21_SameKeyIffSameInputs ==
    /\ C21_SameInputsSameKey
    /\ C21_NoTwoCombinationsOneKey
    /\ C21_ForwardedOptionsInKey

\* the two calls differ at most in the order in which the entries of the
\* output schema were inserted, at some level
SchemaReordered ==
    /\ fn.first.agent.output_type.type = "schema"
    /\ fn.second.agent.output_type.type = "schema"
    /\ SchemaShape(fn.first.agent) = SchemaShape(fn.second.agent)
    /\ fn.first.agent.id = fn.second.agent.id
    /\ fn.first.agent.str = fn.second.agent.str
    /\ fn.first.prompt = fn.second.prompt
    /\ fn.first.kwargs = fn.second.kwargs

C22_TopLevelOrderIgnored ==
    KeysMade /\ SchemaReordered /\ TopLevel(fn.first.agent) = TopLevel(fn.second.agent)
        => fn.ret[1] = fn.ret[2]

\* C22: two output schemas with the same entries at every nesting level,
\* inserted in different orders, give the same key.
C22_SchemaOrderIgnored ==
    KeysMade /\ SchemaReordered => fn.ret[1] = fn.ret[2]

\* the key built from the agent's string form, the prompt and the history
RemainingComponents(a) ==
    Join(<<a.agent.str, a.prompt>>
             \o (IF HistoryContent(a.kwargs) # <<>>
                 THEN <<Join(HistoryContent(a.kwargs), Bar)>>
                 ELSE <<>>),
         Bar)

SchemaUnreadable(a) == a.agent.output_type.type = "broken"

\* C23: when the output schema of the agent cannot be read, create_cache_key
\* returns the key made of the remaining components, which is the key of
\* the same call with an agent that declares no output type.
C23_UnreadableSchemaLeftOut ==
    KeysMade =>
        /\ SchemaUnreadable(fn.first) => fn.ret[1] = RemainingComponents(fn.first)
        /\ SchemaUnreadable(fn.second) => fn.ret[2] = RemainingComponents(fn.second)
        /\ ( /\ SchemaUnreadable(fn.first)
             /\ fn.second.agent.output_type = None
             /\ fn.first.agent.str = fn.second.agent.str
             /\ fn.first.prompt = fn.second.prompt
             /\ fn.first.kwargs = fn.second.kwargs ) => fn.ret[1] = fn.ret[2]

C23_Witness ==
    /\ KeysMade
    /\ SchemaUnreadable(fn.first)
    /\ Len(HistoryContent(fn.first.kwargs)) = 2
    /\ fn.second.agent.output_type = None
    /\ fn.first.prompt = fn.second.prompt /\ fn.first.kwargs = fn.second.kwargs
    /\ fn.ret[1] = RemainingComponents(fn.first)
    /\ fn.ret[1] = fn.ret[2]

\* the call began after the entry under its key had expired, looked the key
\* up, and nothing it called afterwards failed
AfterExpiry(C) ==
    /\ C.pc # "idle" /\ ~C.args.skip_cache /\ C.lookup # "none"
    /\ C.origin0.type = "expired"

Undisturbed(C) ==
    /\ C.max_retries > 0
    /\ C.faults.agent = 0 /\ CleanAfterRun(C)

\* C24: every entry a call writes carries the expiry ttl of that call,
\* 1296000 when the option is not given; once an entry has expired the key
\* is empty, and the next call with the key misses and, when nothing fails,
\* invokes the agent exactly once and writes a new entry.
C24_ExpiryIsTtl ==
    /\ DefaultArgs(AgentA, Hi).ttl = 1296000
    /\ \A c \in Calls :
           calls[c].n_writes >= 1 => calls[c].write.entry.ex = calls[c].args.ttl
    /\ \A k \in Keys :
           /\ origin[k].type = "expired" => store[k] = None
           /\ origin[k].type = "AgentRunResult" =>
                  store[k] # None /\ store[k].ex \in {a.ttl : a \in CacheArgs}
    /\ \A c \in Calls :
           AfterExpiry(calls[c]) =>
               /\ calls[c].store0[calls[c].cache_key] = None
               /\ calls[c].lookup \in {"miss", "error"}
               /\ (calls[c].pc = "done" /\ Undisturbed(calls[c])) =>
                      /\ calls[c].n_agent = 1
                      /\ Returned(calls[c], calls[c].result)
                      /\ calls[c].n_writes = 1
                      /\ store[calls[c].cache_key] = calls[c].write.entry

C24_Witness ==
    \E c \in Calls :
        /\ AfterExpiry(calls[c]) /\ calls[c].origin0.ex = 60
        /\ calls[c].pc = "done" /\ Undisturbed(calls[c])
        /\ calls[c].n_agent = 1
        /\ calls[c].args.ttl = DEFAULT_TTL
        /\ store[calls[c].cache_key].ex = 1296000

\* the store URL in effect for the call, the redis_url option if given and
\* LLM_CACHE_REDIS_URL otherwise, is unset or has a scheme that is not
\* accepted
EffectiveUrl(args) == IF Truthy(args.redis_url) THEN args.redis_url ELSE args.environ

BadUrl(args) ==
    \/ ~Truthy(EffectiveUrl(args))
    \/ EffectiveUrl(args).value[1] \notin {"redis", "rediss", "redis+sentinel"}

NoClient(C) == C.pc # "idle" /\ ~C.args.skip_cache /\ BadUrl(C.args)

FailedAtOnce(C) ==
    /\ C.pc = "done" /\ C.ret.type = "raise"
    /\ C.n_agent = 0 /\ C.n_reports = 0 /\ C.n_writes = 0

C25_BadUrlFailsBeforeAgent ==
    \A c \in Calls : NoClient(calls[c]) => FailedAtOnce(calls[c])

C25_BadEnvironmentIsConfigurationError ==
    \A c \in Calls :
        (NoClient(calls[c]) /\ ~Truthy(calls[c].args.redis_url)) =>
            /\ FailedAtOnce(calls[c])
            /\ calls[c].ret.exc.type = "ConfigurationError"

\* C25: a call with skip_cache false whose effective store URL is unset or
\* has a scheme other than redis, rediss or redis+sentinel raises
\* ConfigurationError, without having invoked the agent or recorded an
\* expense.
C25_BadUrlIsConfigurationError ==
    \A c \in Calls :
        NoClient(calls[c]) =>
            /\ FailedAtOnce(calls[c])
            /\ calls[c].ret.exc.type = "ConfigurationError"

\* the connection-error retry policy of the call: each field of
\* retry_config that is supplied, the default for each that is not
Supplied(args, field) ==
    Truthy(args.retry_config) /\ field \in DOMAIN args.retry_config.value

Policy(args, field) ==
    IF Supplied(args, field) THEN args.retry_config.value[field]
    ELSE DEFAULT_RETRY_CONFIG[field]

\* the waits the policy allows before the i-th connection-error retry
PolicyWaits(args, i) ==
    LET delay == Min(Policy(args, "initial_delay") * Pow2(i), Policy(args, "max_delay"))
    IN  {(delay * (100 + j)) \div 100 :
            j \in {-Policy(args, "jitter"), Policy(args, "jitter")}}

FieldMissing(C) == C.pc = "done" /\ C.ret.type = "raise" /\ C.ret.exc.type = "KeyError"

C26_AttemptsFollowPolicy ==
    \A c \in Calls :
        LET C == calls[c]
        IN  (C.pc # "idle" /\ C.n_agent >= 1) =>
                /\ C.max_retries = Policy(C.args, "max_retries")
                /\ C.retry_count <= Policy(C.args, "max_retries")

C26_SuppliedCeilingAndJitterUsed ==
    \A c \in Calls :
        LET C == calls[c]
        IN  ( /\ C.pc # "idle" /\ C.rl_hits = 0
              /\ Supplied(C.args, "max_delay") /\ Supplied(C.args, "jitter") ) =>
                \A i \in 1..Len(C.conn_waits) :
                    C.conn_waits[i] \in
                        {(Min(C.args.initial_wait * Pow2(i), Policy(C.args, "max_delay"))
                              * (100 + j)) \div 100 :
                             j \in {-Policy(C.args, "jitter"), Policy(C.args, "jitter")}}

\* C26: each field of retry_config that is supplied replaces the default of
\* the connection-error retry policy and each field that is not supplied
\* keeps its default: no call fails for a field that is missing, a call
\* makes at most max_retries attempts, and its i-th connection-error wait
\* is min(initial_delay * 2^i, max_delay) scaled by 1 - jitter or 1 + jitter.
C26_RetryConfigFieldsOverride ==
    \A c \in Calls :
        LET C == calls[c]
        IN  /\ ~FieldMissing(C)
            /\ (C.pc # "idle" /\ C.n_agent >= 1) =>
                   C.max_retries = Policy(C.args, "max_retries")
            /\ C.rl_hits = 0 =>
                   \A i \in 1..Len(C.conn_waits) : C.conn_waits[i] \in PolicyWaits(C.args, i)

C26_InitialDelayUsed ==
    \A c \in Calls :
        LET C == calls[c]
        IN  ( /\ C.pc # "idle" /\ C.rl_hits = 0
              /\ Supplied(C.args, "max_delay") /\ Supplied(C.args, "jitter") ) =>
                \A i \in 1..Len(C.conn_waits) : C.conn_waits[i] \in PolicyWaits(C.args, i)

C26_NoFieldMissing ==
    \A c \in Calls : ~FieldMissing(calls[c])

\* the call is about to sleep before a connection-error retry
ConnectionWait(C) == C.pc = "connection_sleep"

CappedDelay(C) == Min(C.wait_time * Pow2(C.retry_count), C.retry_config.max_delay)

C27_WaitIsJitteredCappedDelay ==
    \A c \in Calls :
        ConnectionWait(calls[c]) =>
            /\ calls[c].actual_delay * 100
                   >= CappedDelay(calls[c]) * (100 - calls[c].retry_config.jitter) - 99
            /\ calls[c].actual_delay * 100
                   <= CappedDelay(calls[c]) * (100 + calls[c].retry_config.jitter)
            /\ CappedDelay(calls[c]) <= calls[c].retry_config.max_delay

\* C27 as stated: the wait before a connection-error retry is
\* min(wait_time * 2^retry_count, max_delay) * (1 + jitter) for a jitter
\* between -J and J, and is never longer than max_delay.
C27_JitteredWaitBelowCeiling ==
    /\ C27_WaitIsJitteredCappedDelay
    /\ \A c \in Calls :
           ConnectionWait(calls[c]) =>
               calls[c].actual_delay <= calls[c].retry_config.max_delay

\* C27, amended: the wait before a connection-error retry is
\* min(wait_time * 2^retry_count, max_delay) * (1 + jitter) for a jitter
\* between -J and J, and is never longer than max_delay * (1 + J).
C27_JitteredWaitBelowScaledCeiling ==
    /\ C27_WaitIsJitteredCappedDelay
    /\ \A c \in Calls :
           ConnectionWait(calls[c]) =>
               calls[c].actual_delay * 100
                   <= calls[c].retry_config.max_delay * (100 + calls[c].retry_config.jitter)

C27_Witness ==
    \E c \in Calls :
        /\ ConnectionWait(calls[c])
        /\ calls[c].wait_time * Pow2(calls[c].retry_count) > calls[c].retry_config.max_delay
        /\ calls[c].actual_delay > calls[c].retry_config.max_delay

\* C28: the shared default price table is never changed by pricing calls,
\* and every pricing call gets the rates it would get alone on the table as
\* written in costs.py: the custom rates of one call are not seen by any
\* call after it or interleaved with it.
C28_DefaultTableUnchanged ==
    /\ default_costs = DEFAULT_COSTS
    /\ fn.op = "pricing" =>
           \A i \in 1..Len(fn.done) :
               fn.done[i].ret = get_model_costs(fn.done[i].model_name,
                                                fn.done[i].custom_costs)

C28_Witness ==
    /\ fn.op = "pricing" /\ Len(fn.done) = 2
    /\ fn.done[1].caller # fn.done[2].caller
    /\ Truthy(fn.done[1].custom_costs)
    /\ HasKey(fn.done[1].custom_costs.value, KnownModel)
    /\ fn.done[1].model_name = KnownModel /\ fn.done[2].model_name = KnownModel
    /\ fn.done[2].custom_costs = None
    /\ fn.done[2].ret = Lookup(DEFAULT_COSTS, KnownModel)
    /\ fn.done[1].ret # fn.done[2].ret
    /\ default_costs = DEFAULT_COSTS

\* the synchronous call has returned to its caller
SyncReturned == fn.op = "cached_agent_run_sync" /\ fn.at = "returned"
                    /\ calls[Caller].pc = "done"

\* the call d awaited cached_agent_run with the arguments of the synchronous
\* call, and store and agent behaved towards it as towards that one
SameRun(d) ==
    LET C == calls[Caller]
        D == calls[d]
    IN  /\ d # Caller /\ D.pc = "done"
        /\ D.args = fn.args
        /\ D.lookup = C.lookup /\ D.cached_result = C.cached_result
        /\ D.n_agent = C.n_agent
        /\ D.n_agent > 0 => D.result = C.result /\ D.raised = C.raised

\* C29: the synchronous call hands its caller what the coroutine it ran
\* ended with, the coroutine got the arguments of the call, and an awaited
\* cached_agent_run with the same arguments and the same behaviour of store
\* and agent ends the same way after the same agent invocations, expense
\* reports and store operations.
C29_SyncIsAsyncRunToCompletion ==
    SyncReturned =>
        /\ fn.ret = calls[Caller].ret
        /\ calls[Caller].args = fn.args
        /\ \A d \in Calls :
               SameRun(d) =>
                   /\ fn.ret = calls[d].ret
                   /\ calls[d].steps = calls[Caller].steps
                   /\ calls[d].n_agent = calls[Caller].n_agent
                   /\ calls[d].n_reports = calls[Caller].n_reports
                   /\ calls[d].report = calls[Caller].report
                   /\ calls[d].n_writes = calls[Caller].n_writes
                   /\ calls[d].n_writes > 0 =>
                          /\ calls[d].write.key = calls[Caller].write.key
                          /\ calls[d].write.entry = calls[Caller].write.entry

C29_Witness ==
    /\ SyncReturned
    /\ fn.args.ttl = 60
    /\ fn.ret.type = "return"
    /\ \E d \in Calls : SameRun(d) /\ calls[d].n_writes = 1 /\ calls[d].lookup = "miss"

C29_WitnessRaise ==
    /\ SyncReturned
    /\ fn.ret.type = "raise" /\ fn.ret.exc.type = "OtherError"
    /\ \E d \in Calls : SameRun(d)

\* the clearing call has returned a count to its caller
ClearReturned ==
    /\ fn.op \in ClearNames /\ fn.at = "returned"
    /\ IF fn.ret = None THEN FALSE ELSE fn.ret.type = "return"

\* no client changed the database between DBSIZE and FLUSHDB
NothingBetween == fn.seen = fn.flushed

\* the value returned is the size DBSIZE reported
C30_CountIsSizeRead ==
    ClearReturned => fn.ret.value = Cardinality(fn.seen)

\* FLUSHDB removes every key the database holds when it is served
C30_FlushDeletesAll ==
    ClearReturned => fn.deleted = Cardinality(fn.flushed)

\* with nothing written or expired between the two commands the value
\* returned is the number of keys deleted
C30_UndisturbedCountIsDeleted ==
    ClearReturned /\ NothingBetween => fn.ret.value = fn.deleted

\* clear_cache returns straight after FLUSHDB: the database is empty then
C30_SyncLeavesEmpty ==
    ClearReturned /\ fn.op = "clear_cache" => fn.left = {}

\* C30: when clear_cache or clear_cache_async returns, the store is empty
\* and the value returned is the number of keys the call deleted, whatever
\* other clients and calls wrote while the clearing was in progress.
C30_EmptyAndCountIsDeleted ==
    ClearReturned => fn.left = {} /\ fn.ret.value = fn.deleted

\* a clearing of two entries that no client disturbed
C30_Undisturbed ==
    /\ ClearReturned /\ NothingBetween
    /\ fn.deleted = 2 /\ fn.ret.value = 2 /\ fn.left = {}

\* another client wrote between DBSIZE and FLUSHDB of clear_cache
C30_WriteBetween ==
    /\ ClearReturned /\ fn.op = "clear_cache"
    /\ fn.ret.value = 1 /\ fn.deleted = 2

\* a write was served while clear_cache_async closed its client
C30_WriteAfterFlush ==
    /\ ClearReturned /\ fn.op = "clear_cache_async"
    /\ Cardinality(fn.left) = 1

\* the payload the call read from the store decoded
Decoded(C) == C.pc # "idle" /\ C.lookup = "hit"

\* a decoded payload takes the call to the zero-cost report
C31_DecodedGoesToReport ==
    \A c \in Calls :
        Decoded(calls[c]) /\ calls[c].hit_report = "none" =>
            /\ calls[c].pc = "report_zero"
            /\ calls[c].n_agent = 0 /\ calls[c].n_reports = 0

\* when the expense recorder takes the zero-cost report, the call returns
\* the decoded entry without an agent invocation
C31_ReportedHitReturns ==
    \A c \in Calls :
        Decoded(calls[c]) /\ calls[c].hit_report = "ok" =>
            /\ calls[c].pc = "done"
            /\ Returned(calls[c], calls[c].result)
            /\ calls[c].steps = <<"report_zero", "return">>
            /\ calls[c].n_agent = 0

\* C31: a call whose payload decoded goes to the zero-cost report and then
\* returns; it never invokes the agent, whatever the expense recorder does.
C31_DecodedNeverRunsAgent ==
    \A c \in Calls :
        Decoded(calls[c]) =>
            /\ calls[c].n_agent = 0
            /\ calls[c].pc \in {"report_zero", "done"}
            /\ calls[c].pc = "done" => Returned(calls[c], calls[c].result)

\* a hit whose zero-cost report raised, followed by an agent invocation
C31_RecorderFailureRunsAgent ==
    \E c \in Calls :
        /\ Decoded(calls[c]) /\ calls[c].hit_report = "raised"
        /\ calls[c].n_agent = 1 /\ calls[c].n_reports = 2
        /\ calls[c].pc = "done"

\* the arguments of the i-th key made
KeyArgsOf(i) == IF i = 1 THEN fn.first ELSE fn.second

\* a non-empty history is supplied; the agent declares an output schema
HistorySupplied(a) == Len(HistoryContent(a.kwargs)) > 0

SchemaDeclared(a) == a.agent.output_type.type = "schema"

\* the components the key of a has, in their order
Components(a) ==
    <<a.agent.str, a.prompt>>
    \o (IF HistorySupplied(a) THEN <<Join(HistoryContent(a.kwargs), Bar)>> ELSE <<>>)
    \o (IF SchemaDeclared(a)
        THEN <<StrOfItems(Sorted(a.agent.output_type.items))>>
        ELSE <<>>)

\* the two calls differ only in that one has an empty history or None for
\* it and the other has no history
EmptyAgainstNoHistory ==
    /\ fn.first.agent = fn.second.agent
    /\ fn.first.prompt = fn.second.prompt
    /\ "message_history" \in DOMAIN fn.first.kwargs
    /\ ~Truthy(fn.first.kwargs.message_history)
    /\ "message_history" \notin DOMAIN fn.second.kwargs

\* C32: the key is the join with "|" of the agent's string form, the raw
\* prompt, then, only with a non-empty history, the messages' string forms
\* joined with "|", then, only with a declared output schema, the string
\* form of the sorted schema items; an empty history gives the key of a
\* call without history.
C32_KeyIsJoinOfComponents ==
    fn.op = "create_cache_key" =>
        /\ \A i \in 1..Len(fn.ret) : fn.ret[i] = Join(Components(KeyArgsOf(i)), Bar)
        /\ KeysMade /\ EmptyAgainstNoHistory => fn.ret[1] = fn.ret[2]

\* a key of four components next to the key of the same agent and prompt
\* with an empty history, which has three
C32_Witness ==
    /\ KeysMade
    /\ fn.first.agent = fn.second.agent /\ SchemaDeclared(fn.first)
    /\ fn.first.prompt = Hi /\ fn.second.prompt = Hi
    /\ fn.first.kwargs = [message_history |-> List(<< <<"a">>, <<"b">> >>)]
    /\ fn.second.kwargs = [message_history |-> List(<<>>)]
    /\ Len(Components(fn.first)) = 4 /\ Len(Components(fn.second)) = 3
    /\ fn.ret[1] = fn.first.agent.str \o Bar \o Hi \o Bar \o <<"a", "|", "b">> \o Bar
                       \o StrOfItems(Sorted(fn.first.agent.output_type.items))
    /\ fn.ret[2] = fn.first.agent.str \o Bar \o Hi \o Bar
                       \o StrOfItems(Sorted(fn.first.agent.output_type.items))

C32_WitnessEmptyHistory ==
    /\ KeysMade /\ EmptyAgainstNoHistory
    /\ fn.first.kwargs.message_history = List(<<>>)
    /\ fn.ret[1] = fn.ret[2]

\* the expense reports the call made inside the retry loop
LoopReports(C) == C.n_reports - (IF C.hit_report = "none" THEN 0 ELSE 1)

\* the last agent invocation of the call returned a result
LastRunReturned(C) == Len(C.steps) >= 2 /\ C.steps[1] = "agent" /\ C.steps[2] = "price"

\* while neither calculate_cost, the expense recorder nor the store write
\* raises, the agent returns at most once and the cost is reported at most
\* once
C33_CleanRunIsLast ==
    \A c \in Calls :
        calls[c].pc # "idle" /\ CleanAfterRun(calls[c]) =>
            /\ calls[c].n_ok <= 1 /\ LoopReports(calls[c]) <= 1
            /\ calls[c].n_ok = 1 /\ calls[c].pc # "run" => LastRunReturned(calls[c])

\* an error outside the two retried classes, raised by the expense recorder
\* or the store write, ends the call with that error
C33_OtherErrorAfterRunEnds ==
    \A c \in Calls :
        LET C == calls[c]
        IN  (/\ C.pc # "idle" /\ C.n_ok >= 1 /\ Truthy(C.raised)
             /\ C.raised.origin \in {"recorder", "store"}
             /\ C.raised.type = "OtherError")
            => C.pc = "done" /\ C.ret = [type |-> "raise", exc |-> C.raised]

\* C33: once an agent invocation of a call has succeeded, the agent is not
\* invoked again in that call and the expense recorder is invoked at most
\* once, whatever the expense recorder or the store write raise afterwards.
C33_NoRetryAfterSuccess ==
    \A c \in Calls :
        calls[c].pc # "idle" /\ calls[c].n_ok >= 1 =>
            /\ calls[c].n_ok = 1
            /\ calls[c].pc \notin {"run", "rate_limit_sleep", "connection_sleep"}
            /\ LastRunReturned(calls[c])
            /\ LoopReports(calls[c]) <= 1

\* the expense recorder raised a connection-class error after a successful
\* agent invocation, and the agent was invoked again and succeeded again
C33_RerunAfterRecorderError ==
    \E c \in Calls :
        /\ calls[c].pc = "done" /\ calls[c].n_ok = 2 /\ calls[c].n_agent = 2
        /\ calls[c].faults.recorder = 1 /\ calls[c].faults.agent = 0
        /\ calls[c].n_reports = 2 /\ calls[c].hit_report = "none"
        /\ calls[c].ret.type = "return"

\* the call ended with a rate-limit error, a connection error, a cost-lookup
\* error or another error of the agent
FailedInRun(C) ==
    /\ C.pc = "done" /\ C.ret.type = "raise"
    /\ \/ C.ret.exc.type \in {"UsageLimitExceeded", "ConnectionError"}
       \/ C.ret.exc.type = "ValueError" /\ C.ret.exc.origin = "costs"
       \/ C.ret.exc.type = "OtherError" /\ C.ret.exc.origin = "agent"

\* neither the expense recorder nor the store write raised in the call
BookkeepingWorked(C) ==
    C.faults.recorder = 0 /\ C.faults.store = 0 /\ C.hit_report # "raised"

\* a store write of a call comes after an agent invocation that returned and
\* an expense report that carries the cost stored
C34_WriteAfterRunAndReport ==
    \A c \in Calls :
        calls[c].n_writes >= 1 =>
            /\ calls[c].n_ok >= 1 /\ LastRunReturned(calls[c])
            /\ calls[c].n_reports >= 1
            /\ calls[c].report.cost = calls[c].cost
            /\ ~calls[c].report.raised
            /\ pickle_loads(calls[c].write.entry.payload).cost = calls[c].report.cost
            /\ calls[c].steps = <<"agent", "price", "report", "write", "return">>

\* while the expense recorder and the store write work, a call that fails in
\* the run has written nothing and reported nothing
C34_FailedRunLeavesNothing ==
    \A c \in Calls :
        FailedInRun(calls[c]) /\ BookkeepingWorked(calls[c]) =>
            /\ calls[c].n_writes = 0 /\ store = calls[c].store0
            /\ calls[c].n_reports = 0

\* C34: in every reachable state each store write of a call comes after a
\* successful agent invocation and an expense report with the cost stored,
\* and a call that fails with a rate-limit, connection, cost-lookup or other
\* agent error has left the store unchanged and recorded no expense.
C34_WritesAndFailuresConsistent ==
    /\ C34_WriteAfterRunAndReport
    /\ \A c \in Calls :
           FailedInRun(calls[c]) =>
               /\ calls[c].n_writes = 0 /\ store = calls[c].store0
               /\ calls[c].n_reports = 0

\* the expense recorder took the cost, the store write raised a
\* connection-class error every time, and the call failed with
\* ConnectionError
C34_FailedAfterExpenseRecorded ==
    \E c \in Calls :
        /\ FailedInRun(calls[c]) /\ calls[c].ret.exc.type = "ConnectionError"
        /\ calls[c].faults.recorder = 0 /\ calls[c].faults.agent = 0
        /\ calls[c].faults.store >= 1
        /\ calls[c].n_reports >= 1 /\ ~calls[c].report.raised
        /\ store = calls[c].store0

C34_FailedRunWitness ==
    \E c \in Calls :
        /\ FailedInRun(calls[c]) /\ BookkeepingWorked(calls[c])
        /\ calls[c].ret.exc.type = "ValueError" /\ calls[c].n_ok = 1

\* the call is in the retry loop
Retrying(C) == C.pc \in {"run", "rate_limit_sleep", "connection_sleep"}

\* the delay before jitter that the connection errors so far and the
\* configuration alone give
OwnDelay(C) == Min(C.args.initial_wait * Pow2(C.retry_count), C.retry_config.max_delay)

Jittered(delay, jitter) == (delay * (100 + jitter)) \div 100

\* the retry counter counts the connection errors handled and nothing else:
\* a rate-limit hit leaves it as it is
C35_RateLimitKeepsRetryCount ==
    \A c \in Calls :
        Retrying(calls[c]) =>
            calls[c].retry_count = Len(calls[c].conn_waits)
                                   + (IF ConnectionWait(calls[c]) THEN 1 ELSE 0)

\* the rate-limit waits double from initial_wait, whatever connection
\* errors came between them
C35_RateLimitWaitsIgnoreConnectionErrors ==
    \A c \in Calls :
        calls[c].pc # "idle" =>
            \A i \in 1..Len(calls[c].rl_waits) :
                calls[c].rl_waits[i] = calls[c].args.initial_wait * Pow2(i - 1)

\* without a rate-limit hit before it, the wait before a connection retry is
\* the jittered delay the connection errors and the configuration give
C35_WaitWithoutRateLimitHits ==
    \A c \in Calls :
        ConnectionWait(calls[c]) /\ calls[c].rl_hits = 0 =>
            \E j \in Jitters(calls[c]) :
                calls[c].actual_delay = Jittered(OwnDelay(calls[c]), j)

\* C35: a rate-limit hit leaves the connection retry counter unchanged, and
\* the wait before a connection retry is given by the number of connection
\* errors so far and the configuration, whatever the number of rate-limit
\* hits before it.
C35_PoliciesIndependent ==
    /\ C35_RateLimitKeepsRetryCount
    /\ \A c \in Calls :
           ConnectionWait(calls[c]) =>
               \E j \in Jitters(calls[c]) :
                   calls[c].actual_delay = Jittered(OwnDelay(calls[c]), j)

\* a first connection retry after one rate-limit hit waits twice as long as
\* it would have without the hit
C35_WaitDoubledByRateLimitHit ==
    \E c \in Calls :
        /\ ConnectionWait(calls[c]) /\ calls[c].rl_hits = 1 /\ calls[c].retry_count = 1
        /\ calls[c].args.initial_wait = 1000 /\ calls[c].retry_config = DEFAULT_RETRY_CONFIG
        /\ OwnDelay(calls[c]) = 2000
        /\ calls[c].actual_delay \in {Jittered(4000, -10), Jittered(4000, 10)}

\* the call got as far as the retry loop
ReachedLoop(C) == C.pc # "idle" /\ C.retry_config # None

\* the call returned the entry it found in the store
ServedFromStore(C) == C.lookup = "hit" /\ C.hit_report = "ok"

\* the call ended with an exception raised by a pass of the loop: the raise
\* follows an agent invocation of that pass
RaisedInLoop(C) ==
    /\ C.pc = "done" /\ C.ret.type = "raise"
    /\ Len(C.steps) >= 2 /\ C.steps[1] = "agent"
    /\ C.steps[Len(C.steps) - 1] \in {"agent", "price", "report", "write"}

\* the call ended at the exit after the loop
ExitedAfterLoop(C) ==
    /\ ReachedLoop(C) /\ C.pc = "done" /\ C.ret.type = "raise"
    /\ ~RaisedInLoop(C)

\* C36: the exit after the retry loop is taken only with max_retries of 0
\* or less, and then the agent has not been invoked and the call fails with
\* RuntimeError; with max_retries of 1 or more a call that gets to the loop
\* and does not return a cached entry invokes the agent at least once and
\* fails, if it fails, from inside the loop.
C36_ExhaustedOnlyWithoutRetries ==
    \A c \in Calls :
        LET C == calls[c]
        IN  ReachedLoop(C) =>
                /\ C.pc = "run" /\ ~(C.retry_count < C.max_retries) =>
                       C.max_retries <= 0 /\ C.n_agent = 0
                /\ ExitedAfterLoop(C) =>
                       /\ C.max_retries <= 0 /\ C.n_agent = 0
                       /\ C.ret.exc.type = "RuntimeError"
                /\ C.pc = "done" /\ C.max_retries <= 0 => ExitedAfterLoop(C)
                /\ C.pc = "done" /\ C.max_retries >= 1 /\ ~ServedFromStore(C) =>
                       /\ C.n_agent >= 1
                       /\ C.ret.type = "raise" => RaisedInLoop(C)

C36_Witness ==
    \E c \in Calls :
        /\ ExitedAfterLoop(calls[c]) /\ calls[c].max_retries = -1
        /\ calls[c].lookup = "miss" /\ calls[c].n_agent = 0
        /\ calls[c].ret.exc.type = "RuntimeError"

\* a call with max_retries 2 that failed on its second connection error
C36_WitnessRaisedInLoop ==
    \E c \in Calls :
        /\ RaisedInLoop(calls[c]) /\ calls[c].max_retries = 2
        /\ calls[c].retry_count = 2 /\ calls[c].n_agent = 2
        /\ calls[c].ret.exc.type = "ConnectionError"

====
